---- MODULE Spec2Model ----
(***************************************************************************)
(* Clinic management application: the REST handlers of the three backend   *)
(* variants of the repository, acting on one document database and one     *)
(* upload directory.                                                       *)
(*                                                                         *)
(*   via = "server"   src/server/server.js                                 *)
(*   via = "part005"  src/unnamed/part_005                                 *)
(*   via = "router"   src/unnamed/part_001 (patients router),              *)
(*                    src/src/routes/MedicalRecord.js (records router),    *)
(*                    both behind src/src/middleaware/auth.js              *)
(*                                                                         *)
(* All variants name the same mongoose models (User, Patient, Appointment, *)
(* MedicalRecord), hence the same collections, and sign tokens with the    *)
(* same JWT_SECRET; a request is served by one of them.                    *)
(*                                                                         *)
(* _id values are ObjectIds generated by the driver: fresh, never reused.  *)
(* Storage names are generated by multer's filename callback: fresh.       *)
(***************************************************************************)
EXTENDS Integers, Sequences, FiniteSets, TLC

\* ---------------------------------------------------------------- bounds
MaxUsers == 3
MaxPatients == 2
MaxAppointments == 1
MaxRecords == 2
MaxFiles == 2
IdleStep == 20000
MaxPending == 2
MaxTokens == 3
MaxTime == 24
ClockStep == 12

MaxPhone == 11

\* ------------------------------------------------------ program constants
\* jwt.sign(..., { expiresIn: '24h' }), in hours
TokenTTL == 24

VARIABLES
    users,          \* User collection: set of [id, email, password, role]
    patients,       \* Patient collection: set of documents
    appointments,   \* Appointment collection: set of documents
    records,        \* MedicalRecord collection: set of documents
    uploads,        \* storage names present in the uploads/ directory
    issued,         \* tokens signed so far with JWT_SECRET
    now,            \* wall clock, in hours
    lastId,         \* per collection, the last _id / storage name generated
    gone,           \* history: records deleted and storage names unlinked so far
    pending,        \* requests between their read of the database and their write
    client,         \* the browser session: AuthProvider state and localStorage
    resp            \* the last request served and its response

vars ==
    <<users, patients, appointments, records, uploads, issued, now, lastId, gone, pending,
      client, resp>>

\* ------------------------------------------------------------ JSON values
\* a text field the request body does not carry
Absent == "<absent>"

\* !x for a text field
Falsy(x) == x \in {"", Absent}

\* ------------------------------------------------------------- passwords
\* A stored password is either the submitted text (server.js stores and
\* compares plain text) or a bcrypt hash of it (part_005).
Plain(p) == [alg |-> "plain", text |-> p]

hash(p) == [alg |-> "bcrypt", text |-> p]

compare(p, stored) == stored = hash(p)

\* ---------------------------------------------------------------- tokens
MissingHeader == [kind |-> "missing", userId |-> 0, exp |-> 0]

Malformed == [kind |-> "malformed", userId |-> 0, exp |-> 0]

\* a well-formed JWT naming user u that was not signed with JWT_SECRET
Forged(u) == [kind |-> "forged", userId |-> u, exp |-> MaxTime + TokenTTL + 1]

sign(userId) == [kind |-> "jwt", userId |-> userId, exp |-> now + TokenTTL]

\* jwt.verify: signature, then expiry
verify(tok) == tok \in issued /\ now < tok.exp

\* ----------------------------------------------------------------- users
NoUser == 0

Roles == {"admin", "medecin"}

findById(id) == {u \in users : u.id = id}

findOneByEmail(email) == {u \in users : u.email = email}

TheUser(id) == CHOOSE u \in users : u.id = id

countAdmins == Cardinality({u \in users : u.role = "admin"})

\* ------------------------------------------------------------ middleware
\* Each returns the id put in req.user, or NoUser when it answers 401.
auth_server(tok) ==
    IF tok.kind = "missing" THEN NoUser            \* undefined.replace throws
    ELSE IF ~verify(tok) THEN NoUser               \* jwt.verify throws
    ELSE IF findById(tok.userId) = {} THEN NoUser  \* if (!user) throw
    ELSE tok.userId

auth_part005(tok) ==
    IF tok.kind = "missing" THEN NoUser            \* if (!token) throw
    ELSE IF ~verify(tok) THEN NoUser
    ELSE IF findById(tok.userId) = {} THEN NoUser
    ELSE tok.userId

auth_router(tok) ==
    IF tok.kind = "missing" THEN NoUser
    ELSE IF ~verify(tok) THEN NoUser
    ELSE tok.userId                                \* req.user = { id: decoded.userId }

\* adminAuth: req.user.role !== 'admin' -> 403
adminAuth(caller) == TheUser(caller).role = "admin"

\* -------------------------------------------------------------- responses
Reply(op, via, req, status, msg, out) ==
    [op |-> op, via |-> via, req |-> req, status |-> status, msg |-> msg, out |-> out]

Unauthenticated(op, via, req) == Reply(op, via, req, 401, "Veuillez vous authentifier.", <<>>)

Forbidden(op, via, req) == Reply(op, via, req, 403, "Acces non autorise", <<>>)

\* ------------------------------------------------------------------ Init
\* createInitialAdmin has run: server.js seeds password '1234' in plain text,
\* part_005 seeds the bcrypt hash of 'admin123'.
InitialAdmins ==
    { [id |-> 1, email |-> "admin@example.com", password |-> Plain("1234"), role |-> "admin",
       nom |-> "Admin", prenom |-> "User"],
      [id |-> 1, email |-> "admin@example.com", password |-> hash("admin123"), role |-> "admin",
       nom |-> "Admin", prenom |-> "User"] }

\* The browser before any login: no user in the AuthProvider state, nothing in
\* localStorage, no inactivity timer armed.
NoTimer == -1

TIMEOUT_DURATION == 1 * 60 * 1000

\* timer is the time in ms until the armed inactivity timer is due; idle is
\* the time in ms spent with the timer armed since the last activity event
\* the listeners handled, counted up to TIMEOUT_DURATION; atLogout holds the
\* tokens that had been issued when logout last ran.
\* formData is the state of the patient form: texts are sequences of
\* characters, editingPatient is the id of the patient opened, 0 for none.
NoPatient == 0

resetForm ==
    [telephone |-> <<>>, countryCode |-> <<"+", "2", "1", "6">>, editingPatient |-> NoPatient]

LoggedOut ==
    [user |-> NoUser, token |-> MissingHeader, cached |-> NoUser, timer |-> NoTimer,
     idle |-> 0, atLogout |-> {}, selectedFiles |-> <<>>, formData |-> resetForm]

Init ==
    /\ \E a \in InitialAdmins : users = {a}
    /\ patients = {}
    /\ appointments = {}
    /\ records = {}
    /\ uploads = {}
    /\ issued = {}
    /\ now = 0
    /\ lastId = [user |-> 1, patient |-> 0, appointment |-> 0, record |-> 0, file |-> 0]
    /\ gone = [records |-> {}, files |-> {}]
    /\ pending = {}
    /\ client = LoggedOut
    /\ resp = Reply("none", "none", <<>>, 0, "", <<>>)

\* ----------------------------------------------------------------- clock
Tick ==
    /\ now + ClockStep <= MaxTime
    /\ now' = now + ClockStep
    /\ resp' = Reply("Tick", "none", <<>>, 0, "", <<>>)
    /\ client' = IF client.timer = NoTimer THEN client
                  ELSE [client EXCEPT !.timer = 0, !.idle = TIMEOUT_DURATION]
    /\ UNCHANGED <<users, patients, appointments, records, uploads, issued, lastId, gone,
                   pending>>

\* ----------------------------------------------------- POST /api/auth/login
redact(u) == [id |-> u.id, email |-> u.email, nom |-> u.nom, prenom |-> u.prenom, role |-> u.role]

InvalidCredentials(via, req) ==
    Reply("Login", via, req, 401, "Email ou mot de passe incorrect", <<>>)

LoginResult_server_Enumerating(email, password) ==
    LET req == [email |-> email, password |-> password]
        found == findOneByEmail(email)
    IN  IF Falsy(email) \/ Falsy(password)
        THEN Reply("Login", "server", req, 400, "Email et mot de passe requis", <<>>)
        ELSE IF found = {}
        THEN Reply("Login", "server", req, 404, "Utilisateur non trouve", <<>>)
        ELSE LET user == CHOOSE u \in found : TRUE
             IN  IF user.password # Plain(password)
                 THEN InvalidCredentials("server", req)
                 ELSE Reply("Login", "server", req, 200, "",
                            [token |-> sign(user.id), user |-> redact(user)])

LoginResult_server(email, password) ==
    LET req == [email |-> email, password |-> password]
        found == findOneByEmail(email)
    IN  IF Falsy(email) \/ Falsy(password)
        THEN Reply("Login", "server", req, 400, "Email et mot de passe requis", <<>>)
        ELSE IF found = {} \/ (CHOOSE u \in found : TRUE).password # Plain(password)
        THEN InvalidCredentials("server", req)
        ELSE LET user == CHOOSE u \in found : TRUE
             IN  Reply("Login", "server", req, 200, "",
                       [token |-> sign(user.id), user |-> redact(user)])

LoginResult_part005(email, password) ==
    LET req == [email |-> email, password |-> password]
        found == findOneByEmail(email)
    IN  IF Falsy(email) \/ Falsy(password)
        THEN Reply("Login", "part005", req, 400, "Email et mot de passe requis", <<>>)
        ELSE IF found = {}
        THEN InvalidCredentials("part005", req)
        ELSE LET user == CHOOSE u \in found : TRUE
             IN  IF ~compare(password, user.password)
                 THEN InvalidCredentials("part005", req)
                 ELSE Reply("Login", "part005", req, 200, "",
                            [token |-> sign(user.id), user |-> redact(user)])

\* the response is sent; a signed token now exists
Issue(r) ==
    /\ r.status = 200 => (r.out.token \in issued \/ Cardinality(issued) < MaxTokens)
    /\ resp' = r
    /\ issued' = IF r.status = 200 THEN issued \cup {r.out.token} ELSE issued
    /\ UNCHANGED <<users, patients, appointments, records, uploads, now, lastId, gone,
                   pending, client>>

Login_server(email, password) == Issue(LoginResult_server(email, password))

Login_part005(email, password) == Issue(LoginResult_part005(email, password))

\* --------------------------------------------------------- POST /api/users
NewUser(body, role) ==
    [id |-> lastId.user + 1, email |-> body.email, password |-> Plain(body.password), role |-> role,
     nom |-> body.nom, prenom |-> body.prenom]

SaveUser(op, via, req, stored) ==
    /\ stored.id <= MaxUsers
    /\ users' = users \cup {stored}
    /\ lastId' = [lastId EXCEPT !.user = stored.id]
    /\ resp' = Reply(op, via, req, 201, "", redact(stored))

PostUsers_server(tok, body) ==
    LET req == [tok |-> tok, body |-> body]
        caller == auth_server(tok)
        bad(r) == resp' = r /\ UNCHANGED <<users, lastId>>
    IN  /\ IF caller = NoUser
           THEN bad(Unauthenticated("PostUsers", "server", req))
           ELSE IF ~adminAuth(caller)
           THEN bad(Forbidden("PostUsers", "server", req))
           ELSE IF findOneByEmail(body.email) # {}
           THEN bad(Reply("PostUsers", "server", req, 400, "Cet email est deja utilise", <<>>))
           ELSE IF Falsy(body.email) \/ Falsy(body.password)      \* required: true
           THEN bad(Reply("PostUsers", "server", req, 400,
                          "Erreur lors de la creation de l'utilisateur", <<>>))
           ELSE IF ~Falsy(body.role) /\ body.role \notin Roles             \* enum
           THEN bad(Reply("PostUsers", "server", req, 400,
                          "Erreur lors de la creation de l'utilisateur", <<>>))
           ELSE SaveUser("PostUsers", "server", req,
                         NewUser(body, IF Falsy(body.role) THEN "medecin" ELSE body.role))
        /\ UNCHANGED <<patients, appointments, records, uploads, issued, now, gone,
                       pending, client>>

PostUsers_part005(tok, body) ==
    LET req == [tok |-> tok, body |-> body]
        caller == auth_part005(tok)
        bad(r) == resp' = r /\ UNCHANGED <<users, lastId>>
    IN  /\ IF caller = NoUser
           THEN bad(Unauthenticated("PostUsers", "part005", req))
           ELSE IF ~adminAuth(caller)
           THEN bad(Forbidden("PostUsers", "part005", req))
           ELSE IF Falsy(body.email) \/ Falsy(body.password)
           THEN bad(Reply("PostUsers", "part005", req, 400, "Email et mot de passe requis", <<>>))
           ELSE IF findOneByEmail(body.email) # {}
           THEN bad(Reply("PostUsers", "part005", req, 400, "Cet email est deja utilise", <<>>))
           ELSE IF body.role # Absent /\ body.role \notin Roles           \* enum
           THEN bad(Reply("PostUsers", "part005", req, 400,
                          "Erreur lors de la creation de l'utilisateur", <<>>))
           ELSE SaveUser("PostUsers", "part005", req,
                         NewUser(body, IF body.role = Absent THEN "medecin" ELSE body.role))
        /\ UNCHANGED <<patients, appointments, records, uploads, issued, now, gone,
                       pending, client>>

\* ---------------------------------------------------- DELETE /api/users/:id
DeleteUser_server(tok, id) ==
    LET req == [tok |-> tok, id |-> id]
        caller == auth_server(tok)
        found == findById(id)
    IN  /\ IF caller = NoUser
           THEN resp' = Unauthenticated("DeleteUser", "server", req) /\ UNCHANGED users
           ELSE IF ~adminAuth(caller)
           THEN resp' = Forbidden("DeleteUser", "server", req) /\ UNCHANGED users
           ELSE IF found = {}
           THEN /\ resp' = Reply("DeleteUser", "server", req, 404, "Utilisateur non trouve", <<>>)
                /\ UNCHANGED users
           ELSE IF TheUser(id).role = "admin" /\ countAdmins <= 1
           THEN /\ resp' = Reply("DeleteUser", "server", req, 400,
                                 "Impossible de supprimer le dernier administrateur", <<>>)
                /\ UNCHANGED users
           ELSE /\ users' = users \ found
                /\ resp' = Reply("DeleteUser", "server", req, 200,
                                 "Utilisateur supprime avec succes", <<>>)
        /\ UNCHANGED <<patients, appointments, records, uploads, issued, now, lastId, gone,
                       pending, client>>

DeleteUser_part005(tok, id) ==
    LET req == [tok |-> tok, id |-> id]
        caller == auth_part005(tok)
        found == findById(id)
    IN  /\ IF caller = NoUser
           THEN resp' = Unauthenticated("DeleteUser", "part005", req) /\ UNCHANGED users
           ELSE IF ~adminAuth(caller)
           THEN resp' = Forbidden("DeleteUser", "part005", req) /\ UNCHANGED users
           ELSE IF found = {}
           THEN /\ resp' = Reply("DeleteUser", "part005", req, 404, "Utilisateur non trouve", <<>>)
                /\ UNCHANGED users
           ELSE /\ users' = users \ found
                /\ resp' = Reply("DeleteUser", "part005", req, 200,
                                 "Utilisateur supprime avec succes", <<>>)
        /\ UNCHANGED <<patients, appointments, records, uploads, issued, now, lastId, gone,
                       pending, client>>

\* ----------------------------------------------------------- GET /api/users
\* User.find({}, '-password'), in _id order
RECURSIVE usersToJSON(_)
usersToJSON(docs) ==
    IF docs = {} THEN <<>>
    ELSE LET u == CHOOSE x \in docs : \A y \in docs : x.id <= y.id
         IN  <<redact(u)>> \o usersToJSON(docs \ {u})

GetUsers(via, req, caller) ==
    /\ IF caller = NoUser
       THEN resp' = Unauthenticated("GetUsers", via, req)
       ELSE IF ~adminAuth(caller)
       THEN resp' = Forbidden("GetUsers", via, req)
       ELSE resp' = Reply("GetUsers", via, req, 200, "", usersToJSON(users))
    /\ UNCHANGED <<users, patients, appointments, records, uploads, issued, now, lastId, gone,
                   pending, client>>

GetUsers_server(tok) == GetUsers("server", [tok |-> tok], auth_server(tok))

GetUsers_part005(tok) == GetUsers("part005", [tok |-> tok], auth_part005(tok))

\* ------------------------------------------------------- PUT /api/users/:id
\* A request body: [email, nom, prenom, role, password]; UserManagement sends
\* the first four always and password when the field was filled in.
\* The unique index on email: a write that would give two users one email
\* throws (E11000)
duplicateKey_NoIndex(email, id) == FALSE

duplicateKey(email, id) == \E u \in users : u.email = email /\ u.id # id

\* User.findOne({ email, _id: { $ne: id } })
emailExists(email, id) == {u \in users : u.email = email /\ u.id # id}

\* updateData of server.js: { email, nom, prenom, role } and password when truthy
updateData(u, body) ==
    [u EXCEPT
       !.email = body.email, !.nom = body.nom, !.prenom = body.prenom, !.role = body.role,
       !.password = IF Falsy(body.password) THEN @ ELSE Plain(body.password)]

\* runValidators: true on the paths of updateData
updateDataInvalid(body) == Falsy(body.email) \/ body.role \notin Roles

UserNotFound(via, req) == Reply("PutUsers", via, req, 404, "Utilisateur non trouve", <<>>)

UserUpdateError(via, req) ==
    Reply("PutUsers", via, req, 500, "Erreur lors de la modification de l'utilisateur", <<>>)

\* PUT /api/users/:id of server.js: auth, adminAuth, findById, the email
\* check, findByIdAndUpdate
PutUsers_server(tok, id, body) ==
    LET req == [tok |-> tok, id |-> id, body |-> body]
        caller == auth_server(tok)
        found == findById(id)
    IN  /\ IF caller = NoUser
           THEN resp' = Unauthenticated("PutUsers", "server", req) /\ UNCHANGED users
           ELSE IF ~adminAuth(caller)
           THEN resp' = Forbidden("PutUsers", "server", req) /\ UNCHANGED users
           ELSE IF found = {}
           THEN resp' = UserNotFound("server", req) /\ UNCHANGED users
           ELSE IF body.email # TheUser(id).email /\ emailExists(body.email, id) # {}
           THEN /\ resp' = Reply("PutUsers", "server", req, 400, "Cet email est deja utilise", <<>>)
                /\ UNCHANGED users
           ELSE IF updateDataInvalid(body) \/ duplicateKey(body.email, id)
           THEN resp' = UserUpdateError("server", req) /\ UNCHANGED users
           ELSE LET old == TheUser(id)
                    new == updateData(old, body)
                IN  /\ users' = (users \ {old}) \cup {new}
                    /\ resp' = Reply("PutUsers", "server", req, 200, "", redact(new))
        /\ UNCHANGED <<patients, appointments, records, uploads, issued, now, lastId, gone,
                       pending, client>>

\* updates of part_005: { ...req.body } without role, password hashed when
\* truthy; { $set: updates } with no validators
setUser(u, body) ==
    [u EXCEPT
       !.email = IF body.email = Absent THEN @ ELSE body.email,
       !.nom = IF body.nom = Absent THEN @ ELSE body.nom,
       !.prenom = IF body.prenom = Absent THEN @ ELSE body.prenom,
       !.password = IF body.password = Absent THEN @
                    ELSE IF body.password = "" THEN Plain("")
                    ELSE hash(body.password)]

\* PUT /api/users/:id of part_005: auth only; the caller must be an admin or
\* the user named by :id
PutUsers_part005(tok, id, body) ==
    LET req == [tok |-> tok, id |-> id, body |-> body]
        caller == auth_part005(tok)
        found == findById(id)
    IN  /\ IF caller = NoUser
           THEN resp' = Unauthenticated("PutUsers", "part005", req) /\ UNCHANGED users
           ELSE IF TheUser(caller).role # "admin" /\ caller # id
           THEN resp' = Reply("PutUsers", "part005", req, 403, "Non autorise", <<>>)
                /\ UNCHANGED users
           ELSE IF found = {}
           THEN resp' = UserNotFound("part005", req) /\ UNCHANGED users
           ELSE IF body.email # Absent /\ duplicateKey(body.email, id)
           THEN resp' = UserUpdateError("part005", req) /\ UNCHANGED users
           ELSE LET old == TheUser(id)
                    new == setUser(old, body)
                IN  /\ users' = (users \ {old}) \cup {new}
                    /\ resp' = Reply("PutUsers", "part005", req, 200, "", redact(new))
        /\ UNCHANGED <<patients, appointments, records, uploads, issued, now, lastId, gone,
                       pending, client>>

\* --------------------------------------------------- PUT /api/users/profile
\* The handler of app.put('/api/users/profile', auth, ...).  A request body:
\* [currentPassword, newPassword, nom, prenom, email].  (server.js registers
\* this route after PUT /api/users/:id, whose pattern also matches the path.)
\* x || y for a text field
orElse(x, y) == IF Falsy(x) THEN y ELSE x

PutProfile_server(tok, body) ==
    LET req == [tok |-> tok, body |-> body]
        caller == auth_server(tok)
        user == TheUser(caller)
        changing == ~Falsy(body.currentPassword) /\ ~Falsy(body.newPassword)
        new == [user EXCEPT
                  !.password = IF changing THEN Plain(body.newPassword) ELSE @,
                  !.nom = orElse(body.nom, @),
                  !.prenom = orElse(body.prenom, @),
                  !.email = orElse(body.email, @)]
    IN  /\ IF caller = NoUser
           THEN resp' = Unauthenticated("PutProfile", "server", req) /\ UNCHANGED users
           ELSE IF changing /\ user.password # Plain(body.currentPassword)
           THEN /\ resp' = Reply("PutProfile", "server", req, 400,
                                 "Mot de passe actuel incorrect", <<>>)
                /\ UNCHANGED users
           ELSE IF duplicateKey(new.email, caller)
           THEN /\ resp' = Reply("PutProfile", "server", req, 400,
                                 "Erreur lors de la mise a jour du profil", <<>>)
                /\ UNCHANGED users
           ELSE /\ users' = (users \ {user}) \cup {new}
                /\ resp' = Reply("PutProfile", "server", req, 200, "", redact(new))
        /\ UNCHANGED <<patients, appointments, records, uploads, issued, now, lastId, gone,
                       pending, client>>

\* ------------------------------------------- routing of PUT under /api/users
\* The app.put registrations of server.js whose path starts with /api/users,
\* in the order of registration.  Express runs the first route whose pattern
\* matches the path; a segment pattern ":id" matches any segment.
putRoutes_server ==
    << [pattern |-> <<"api", "users", ":id">>, handler |-> "PutUsers"],
       [pattern |-> <<"api", "users", "profile">>, handler |-> "PutProfile"] >>

routeMatches(pattern, path) ==
    /\ Len(pattern) = Len(path)
    /\ \A i \in 1..Len(path) : pattern[i] = ":id" \/ pattern[i] = path[i]

dispatch(routes, path) ==
    LET hits == {i \in 1..Len(routes) : routeMatches(routes[i].pattern, path)}
    IN  IF hits = {} THEN "none"
        ELSE routes[CHOOSE i \in hits : \A j \in hits : i <= j].handler

\* PUT /api/users/:id of server.js with an :id that is no ObjectId (the text
\* "profile"): auth, adminAuth, then 400 from the isValid test
PutUsers_server_invalidId(tok, path, body) ==
    LET req == [tok |-> tok, path |-> path, body |-> body]
        caller == auth_server(tok)
    IN  /\ resp' = IF caller = NoUser THEN Unauthenticated("PutUsers", "server", req)
                   ELSE IF ~adminAuth(caller) THEN Forbidden("PutUsers", "server", req)
                   ELSE Reply("PutUsers", "server", req, 400, "ID utilisateur invalide", <<>>)
        /\ UNCHANGED <<users, patients, appointments, records, uploads, issued, now, lastId, gone,
                       pending, client>>

\* a request PUT /api/users/profile sent to server.js
PutUsersProfile_server(tok, body) ==
    LET path == <<"api", "users", "profile">>
    IN  IF dispatch(putRoutes_server, path) = "PutProfile"
        THEN PutProfile_server(tok, body)
        ELSE PutUsers_server_invalidId(tok, path, body)

\* ---------------------------------------------------------------- dates
\* A date in a request body is text: a calendar day ("1990-05-17"), a full
\* ISO-8601 timestamp, text that is no date, or not there at all.  A stored
\* Date is an instant in milliseconds; NoDate is a missing one.  Days are
\* counted from 1970-01-01 and kept small enough for 32-bit arithmetic.
Ymd(day) == [form |-> "ymd", day |-> day, ms |-> 0]

Iso(ms) == [form |-> "iso", day |-> 0, ms |-> ms]

NotADate == [form |-> "invalid", day |-> 0, ms |-> 0]

AbsentDate == [form |-> "absent", day |-> 0, ms |-> 0]

NoDate == -1

\* the schema type Date casts the text; a day parses as UTC midnight
castable(v) == v.form \in {"ymd", "iso"}

castDate(v) == IF v.form = "ymd" THEN v.day * 86400000 ELSE v.ms

\* res.json writes a Date as its ISO-8601 timestamp
dateToJSON(ms) == IF ms = NoDate THEN AbsentDate ELSE Iso(ms)

\* -------------------------------------------------------------- patients
\* A Patient document: [id, doctor, nom, prenom, dateNaissance, telephone,
\* email]; createdBy is a history field: the caller whose request created it.
\* A request body: [nom, prenom, dateNaissance, telephone, email, doctor],
\* doctor = NoUser when the body carries no doctor field.
patientToJSON(p) ==
    [id |-> p.id, doctor |-> p.doctor, nom |-> p.nom, prenom |-> p.prenom,
     dateNaissance |-> dateToJSON(p.dateNaissance), telephone |-> p.telephone,
     email |-> p.email]

\* the elements of a set of documents, by ascending _id
RECURSIVE byId(_)
byId(docs) ==
    IF docs = {} THEN <<>>
    ELSE LET d == CHOOSE x \in docs : \A y \in docs : x.id <= y.id
         IN  <<d>> \o byId(docs \ {d})

\* res.json of an array of patients
patientsToJSON(seq) == [i \in 1..Len(seq) |-> patientToJSON(seq[i])]

\* { ...req.body, doctor: req.user.id }
stamp_BodyWins(body, caller) ==
    IF body.doctor # NoUser THEN body ELSE [body EXCEPT !.doctor = caller]

stamp(body, caller) == [body EXCEPT !.doctor = caller]

\* patientSchema: every path is required
patientValid(body) ==
    /\ ~Falsy(body.nom) /\ ~Falsy(body.prenom)
    /\ ~Falsy(body.telephone) /\ ~Falsy(body.email)
    /\ castable(body.dateNaissance)
    /\ body.doctor # NoUser

newPatient_DropsPhone(body, caller) ==
    [id |-> lastId.patient + 1, createdBy |-> caller, doctor |-> body.doctor,
     nom |-> body.nom, prenom |-> body.prenom,
     dateNaissance |-> castDate(body.dateNaissance),
     telephone |-> "", email |-> body.email]

newPatient(body, caller) ==
    [id |-> lastId.patient + 1, createdBy |-> caller, doctor |-> body.doctor,
     nom |-> body.nom, prenom |-> body.prenom,
     dateNaissance |-> castDate(body.dateNaissance),
     telephone |-> body.telephone, email |-> body.email]

\* Patient.find({ doctor: req.user.id })
findPatients(caller) == {p \in patients : p.doctor = caller}

\* Patient.findOne({ _id: id, doctor: req.user.id })
findOnePatient(id, caller) == {p \in patients : p.id = id /\ p.doctor = caller}

\* GET /api/patients, after the middleware
GetPatients(via, req, caller) ==
    /\ IF caller = NoUser
       THEN resp' = Unauthenticated("GetPatients", via, req)
       ELSE resp' = Reply("GetPatients", via, req, 200, "",
                          patientsToJSON(byId(findPatients(caller))))
    /\ UNCHANGED <<users, patients, appointments, records, uploads, issued, now, lastId, gone,
                   pending, client>>

GetPatients_server(tok) == GetPatients("server", [tok |-> tok], auth_server(tok))

GetPatients_part005(tok) == GetPatients("part005", [tok |-> tok], auth_part005(tok))

GetPatients_router(tok) == GetPatients("router", [tok |-> tok], auth_router(tok))

\* POST /api/patients, after the middleware
PostPatients(via, req, caller) ==
    LET body == stamp(req.body, caller)
        doc == newPatient(body, caller)
    IN  /\ IF caller = NoUser
           THEN resp' = Unauthenticated("PostPatients", via, req) /\ UNCHANGED <<patients, lastId>>
           ELSE IF ~patientValid(body)
           THEN /\ resp' = Reply("PostPatients", via, req, 400,
                                 "Erreur lors de la creation du patient", <<>>)
                /\ UNCHANGED <<patients, lastId>>
           ELSE /\ doc.id <= MaxPatients
                /\ patients' = patients \cup {doc}
                /\ lastId' = [lastId EXCEPT !.patient = doc.id]
                /\ resp' = Reply("PostPatients", via, req, 201, "", patientToJSON(doc))
        /\ UNCHANGED <<users, appointments, records, uploads, issued, now, gone, pending, client>>

PostPatients_server(tok, body) ==
    PostPatients("server", [tok |-> tok, body |-> body], auth_server(tok))

PostPatients_part005(tok, body) ==
    PostPatients("part005", [tok |-> tok, body |-> body], auth_part005(tok))

PostPatients_router(tok, body) ==
    PostPatients("router", [tok |-> tok, body |-> body], auth_router(tok))

\* { $set: req.body } on a Patient: the paths the body carries are cast and set
setPatient(p, body) ==
    [p EXCEPT
       !.nom = IF body.nom = Absent THEN @ ELSE body.nom,
       !.prenom = IF body.prenom = Absent THEN @ ELSE body.prenom,
       !.telephone = IF body.telephone = Absent THEN @ ELSE body.telephone,
       !.email = IF body.email = Absent THEN @ ELSE body.email,
       !.dateNaissance = IF body.dateNaissance.form = "absent" THEN @
                         ELSE castDate(body.dateNaissance),
       !.doctor = IF body.doctor = NoUser THEN @ ELSE body.doctor]

\* a path the body carries cannot be cast
setCastError(body) == body.dateNaissance.form = "invalid"

\* runValidators: true checks the required paths that $set touches
setInvalid(body) ==
    "" \in {body.nom, body.prenom, body.telephone, body.email}

PatientNotFound(via, req) ==
    Reply("PutPatients", via, req, 404, "Patient non trouve", <<>>)

PatientUpdateError(via, req) ==
    Reply("PutPatients", via, req, 500, "Erreur lors de la modification du patient", <<>>)

\* PUT /api/patients/:id of server.js: findOne, then findByIdAndUpdate
PutPatients_server(tok, id, body) ==
    LET req == [tok |-> tok, id |-> id, body |-> body]
        caller == auth_server(tok)
        found == findOnePatient(id, caller)
    IN  /\ IF caller = NoUser
           THEN resp' = Unauthenticated("PutPatients", "server", req) /\ UNCHANGED patients
           ELSE IF found = {}
           THEN resp' = PatientNotFound("server", req) /\ UNCHANGED patients
           ELSE IF setCastError(body) \/ setInvalid(body)
           THEN resp' = PatientUpdateError("server", req) /\ UNCHANGED patients
           ELSE LET old == CHOOSE p \in found : TRUE
                    new == setPatient(old, body)
                IN  /\ patients' = (patients \ {old}) \cup {new}
                    /\ resp' = Reply("PutPatients", "server", req, 200, "", patientToJSON(new))
        /\ UNCHANGED <<users, appointments, records, uploads, issued, now, lastId, gone,
                       pending, client>>

\* PUT /api/patients/:id of part_005: findOneAndUpdate, no validators
PutPatients_part005(tok, id, body) ==
    LET req == [tok |-> tok, id |-> id, body |-> body]
        caller == auth_part005(tok)
        found == findOnePatient(id, caller)
    IN  /\ IF caller = NoUser
           THEN resp' = Unauthenticated("PutPatients", "part005", req) /\ UNCHANGED patients
           ELSE IF setCastError(body)
           THEN resp' = PatientUpdateError("part005", req) /\ UNCHANGED patients
           ELSE IF found = {}
           THEN resp' = PatientNotFound("part005", req) /\ UNCHANGED patients
           ELSE LET old == CHOOSE p \in found : TRUE
                    new == setPatient(old, body)
                IN  /\ patients' = (patients \ {old}) \cup {new}
                    /\ resp' = Reply("PutPatients", "part005", req, 200, "", patientToJSON(new))
        /\ UNCHANGED <<users, appointments, records, uploads, issued, now, lastId, gone,
                       pending, client>>

\* DELETE /api/patients/:id of server.js and router.delete('/:id') of the
\* patients router: findOne, then Patient.deleteOne
DeletePatients_Cascading(via, req, caller) ==
    /\ IF caller = NoUser
       THEN /\ resp' = Unauthenticated("DeletePatients", via, req)
            /\ UNCHANGED <<patients, appointments, records>>
       ELSE IF findOnePatient(req.id, caller) = {}
       THEN /\ resp' = Reply("DeletePatients", via, req, 404, "Patient non trouve", <<>>)
            /\ UNCHANGED <<patients, appointments, records>>
       ELSE /\ patients' = {p \in patients : p.id # req.id}
            /\ appointments' = {a \in appointments : a.patient # req.id}
            /\ records' = {r \in records : r.patientId # req.id}
            /\ resp' = Reply("DeletePatients", via, req, 200, "Patient supprime avec succes", <<>>)
    /\ UNCHANGED <<users, uploads, issued, now, lastId, gone, pending, client>>

DeletePatients(via, req, caller) ==
    /\ IF caller = NoUser
       THEN resp' = Unauthenticated("DeletePatients", via, req) /\ UNCHANGED patients
       ELSE IF findOnePatient(req.id, caller) = {}
       THEN /\ resp' = Reply("DeletePatients", via, req, 404, "Patient non trouve", <<>>)
            /\ UNCHANGED patients
       ELSE /\ patients' = {p \in patients : p.id # req.id}
            /\ resp' = Reply("DeletePatients", via, req, 200, "Patient supprime avec succes", <<>>)
    /\ UNCHANGED <<users, appointments, records, uploads, issued, now, lastId, gone,
                   pending, client>>

DeletePatients_server(tok, id) ==
    DeletePatients("server", [tok |-> tok, id |-> id], auth_server(tok))

DeletePatients_router(tok, id) ==
    DeletePatients("router", [tok |-> tok, id |-> id], auth_router(tok))

\* Patient.replaceOne({ _id: id }, { ...req.body, _id: id, doctor: req.user.id }):
\* the whole document is replaced, a path the body lacks is gone
replacePatient(p, body, caller) ==
    [p EXCEPT
       !.nom = body.nom, !.prenom = body.prenom,
       !.telephone = body.telephone, !.email = body.email,
       !.dateNaissance = IF body.dateNaissance.form = "absent" THEN NoDate
                         ELSE castDate(body.dateNaissance),
       !.doctor = caller]

\* PUT /:id of the patients router
PutPatients_router(tok, id, body) ==
    LET req == [tok |-> tok, id |-> id, body |-> body]
        caller == auth_router(tok)
        found == findOnePatient(id, caller)
    IN  /\ IF caller = NoUser
           THEN resp' = Unauthenticated("PutPatients", "router", req) /\ UNCHANGED patients
           ELSE IF found = {}
           THEN resp' = PatientNotFound("router", req) /\ UNCHANGED patients
           ELSE IF setCastError(body)
           THEN resp' = PatientUpdateError("router", req) /\ UNCHANGED patients
           ELSE LET old == CHOOSE p \in found : TRUE
                    new == replacePatient(old, body, caller)
                IN  /\ patients' = (patients \ {old}) \cup {new}
                    /\ resp' = Reply("PutPatients", "router", req, 200, "", patientToJSON(new))
        /\ UNCHANGED <<users, appointments, records, uploads, issued, now, lastId, gone,
                       pending, client>>

\* ----------------------------------------------------------- appointments
\* An Appointment document: [id, doctor, patient, date, heure, motif, status];
\* createdBy is a history field.  A request body: [patient, date, heure,
\* motif, doctor, status], patient = 0 / doctor = NoUser when not carried.
\* heure is text, kept as its sequence of characters.
Digits == <<"0", "1", "2", "3", "4", "5", "6", "7", "8", "9">>

digit(c) == (CHOOSE i \in 1..Len(Digits) : Digits[i] = c) - 1

\* time.split(':')[0]
RECURSIVE beforeColon(_)
beforeColon(s) ==
    IF s = <<>> \/ Head(s) = ":" THEN <<>> ELSE <<Head(s)>> \o beforeColon(Tail(s))

\* Number(text) for a run of decimal digits; Number('') is 0
RECURSIVE Number(_)
Number(s) ==
    IF s = <<>> THEN 0 ELSE 10 * Number(SubSeq(s, 1, Len(s) - 1)) + digit(s[Len(s)])

hoursOf(heure) == Number(beforeColon(heure))

\* populate('patient'): the referenced document, or null
populate(patientId) == {p \in patients : p.id = patientId}

appointmentToJSON(a) ==
    [id |-> a.id, doctor |-> a.doctor, date |-> dateToJSON(a.date), heure |-> a.heure,
     motif |-> a.motif, status |-> a.status,
     patient |-> patientsToJSON(byId(populate(a.patient)))]

appointmentsToJSON(seq) == [i \in 1..Len(seq) |-> appointmentToJSON(seq[i])]

\* the elements of a set of documents by ascending date (ties by _id)
RECURSIVE byDateAsc(_)
byDateAsc(docs) ==
    IF docs = {} THEN <<>>
    ELSE LET d == CHOOSE x \in docs : \A y \in docs :
                      x.date < y.date \/ (x.date = y.date /\ x.id <= y.id)
         IN  <<d>> \o byDateAsc(docs \ {d})

\* by descending date (ties by _id)
RECURSIVE byDateDesc(_)
byDateDesc(docs) ==
    IF docs = {} THEN <<>>
    ELSE LET d == CHOOSE x \in docs : \A y \in docs :
                      x.date > y.date \/ (x.date = y.date /\ x.id <= y.id)
         IN  <<d>> \o byDateDesc(docs \ {d})

\* Appointment.find({ doctor: req.user.id })
findAppointments(caller) == {a \in appointments : a.doctor = caller}

\* appointmentSchema: patient, date, heure, motif, doctor are required;
\* part_005 adds status with an enum
StatusEnum == {"planifie", "termine", "annule"}

appointmentValid(via, body) ==
    /\ body.patient # 0
    /\ castable(body.date)
    /\ body.heure # <<>>
    /\ ~Falsy(body.motif)
    /\ body.doctor # NoUser
    /\ via = "part005" => body.status \in StatusEnum \cup {Absent}

\* server.js declares no status path (strict mode drops it); part_005
\* defaults it to 'planifie'
newAppointment(via, body, caller) ==
    [id |-> lastId.appointment + 1, createdBy |-> caller, doctor |-> body.doctor,
     patient |-> body.patient, date |-> castDate(body.date), heure |-> body.heure,
     motif |-> body.motif,
     status |-> IF via = "server" THEN Absent
                ELSE IF body.status = Absent THEN "planifie" ELSE body.status]

\* GET /api/appointments, after the middleware
GetAppointments(via, req, caller) ==
    /\ IF caller = NoUser
       THEN resp' = Unauthenticated("GetAppointments", via, req)
       ELSE resp' = Reply("GetAppointments", via, req, 200, "",
                          appointmentsToJSON(byDateAsc(findAppointments(caller))))
    /\ UNCHANGED <<users, patients, appointments, records, uploads, issued, now, lastId, gone,
                   pending, client>>

GetAppointments_server(tok) == GetAppointments("server", [tok |-> tok], auth_server(tok))

GetAppointments_part005(tok) == GetAppointments("part005", [tok |-> tok], auth_part005(tok))

\* POST /api/appointments, after the middleware
PostAppointments(via, req, caller) ==
    LET body == stamp(req.body, caller)
        doc == newAppointment(via, body, caller)
    IN  /\ IF caller = NoUser
           THEN /\ resp' = Unauthenticated("PostAppointments", via, req)
                /\ UNCHANGED <<appointments, lastId>>
           ELSE IF ~appointmentValid(via, body)
           THEN /\ resp' = Reply("PostAppointments", via, req, 400,
                                 "Erreur lors de la creation du rendez-vous", <<>>)
                /\ UNCHANGED <<appointments, lastId>>
           ELSE /\ doc.id <= MaxAppointments
                /\ appointments' = appointments \cup {doc}
                /\ lastId' = [lastId EXCEPT !.appointment = doc.id]
                /\ resp' = Reply("PostAppointments", via, req, 201, "", appointmentToJSON(doc))
        /\ UNCHANGED <<users, patients, records, uploads, issued, now, gone, pending, client>>

PostAppointments_server(tok, body) ==
    PostAppointments("server", [tok |-> tok, body |-> body, from |-> "api"], auth_server(tok))

PostAppointments_part005(tok, body) ==
    PostAppointments("part005", [tok |-> tok, body |-> body, from |-> "api"], auth_part005(tok))

\* the middleware of the backend a browser talks to
authOf(via, tok) == IF via = "server" THEN auth_server(tok) ELSE auth_part005(tok)

\* the body axios sends for the form state { patient, date, heure, motif }
formBody(formData) ==
    [patient |-> formData.patient, date |-> formData.date, heure |-> formData.heure,
     motif |-> formData.motif, doctor |-> NoUser, status |-> Absent]

\* Appointments.handleSubmit with editingAppointment = null: the hour test,
\* then axios.post
Appointments_handleSubmit(via, tok, formData) ==
    LET hours == hoursOf(formData.heure)
        req == [tok |-> tok, body |-> formBody(formData), from |-> "Appointments"]
    IN  IF hours < 8 \/ hours >= 18
        THEN /\ resp' = Reply("setTimeError", "client", req, 0,
                              "Les rendez-vous sont possibles uniquement entre 8h et 18h", <<>>)
             /\ UNCHANGED <<users, patients, appointments, records, uploads, issued, now,
                            lastId, gone, pending, client>>
        ELSE PostAppointments(via, req, authOf(via, tok))

\* Dashboard.handleSubmit: axios.post of the form state as it is
Dashboard_handleSubmit(via, tok, formData) ==
    PostAppointments(via, [tok |-> tok, body |-> formBody(formData), from |-> "Dashboard"],
                     authOf(via, tok))

\* { $set: req.body } on an Appointment
setAppointment(a, body) ==
    [a EXCEPT
       !.patient = IF body.patient = 0 THEN @ ELSE body.patient,
       !.date = IF body.date.form = "absent" THEN @ ELSE castDate(body.date),
       !.heure = IF body.heure = <<>> THEN @ ELSE body.heure,
       !.motif = IF body.motif = Absent THEN @ ELSE body.motif,
       !.status = IF body.status = Absent THEN @ ELSE body.status,
       !.doctor = IF body.doctor = NoUser THEN @ ELSE body.doctor]

\* Appointment.findOne... filter { _id: req.params.id, doctor: req.user.id }
findOneAppointment_AnyOwner(id, caller) == {a \in appointments : a.id = id}

findOneAppointment(id, caller) == {a \in appointments : a.id = id /\ a.doctor = caller}

\* DELETE /api/appointments/:id of part_005: findOneAndDelete
DeleteAppointments_part005(tok, id) ==
    LET req == [tok |-> tok, id |-> id]
        caller == auth_part005(tok)
        found == findOneAppointment(id, caller)
    IN  /\ IF caller = NoUser
           THEN /\ resp' = Unauthenticated("DeleteAppointments", "part005", req)
                /\ UNCHANGED appointments
           ELSE IF found = {}
           THEN /\ resp' = Reply("DeleteAppointments", "part005", req, 404,
                                 "Rendez-vous non trouve", <<>>)
                /\ UNCHANGED appointments
           ELSE /\ appointments' = appointments \ found
                /\ resp' = Reply("DeleteAppointments", "part005", req, 200,
                                 "Rendez-vous supprime avec succes", <<>>)
        /\ UNCHANGED <<users, patients, records, uploads, issued, now, lastId, gone,
                       pending, client>>

\* PUT /api/appointments/:id of part_005: findOneAndUpdate, no validators
PutAppointments_part005(tok, id, body) ==
    LET req == [tok |-> tok, id |-> id, body |-> body]
        caller == auth_part005(tok)
        found == findOneAppointment(id, caller)
    IN  /\ IF caller = NoUser
           THEN resp' = Unauthenticated("PutAppointments", "part005", req) /\ UNCHANGED appointments
           ELSE IF body.date.form = "invalid"
           THEN /\ resp' = Reply("PutAppointments", "part005", req, 500,
                                 "Erreur lors de la modification du rendez-vous", <<>>)
                /\ UNCHANGED appointments
           ELSE IF found = {}
           THEN /\ resp' = Reply("PutAppointments", "part005", req, 404,
                                 "Rendez-vous non trouve", <<>>)
                /\ UNCHANGED appointments
           ELSE LET old == CHOOSE a \in found : TRUE
                    new == setAppointment(old, body)
                IN  /\ appointments' = (appointments \ {old}) \cup {new}
                    /\ resp' = Reply("PutAppointments", "part005", req, 200, "",
                                     appointmentToJSON(new))
        /\ UNCHANGED <<users, patients, records, uploads, issued, now, lastId, gone,
                       pending, client>>

\* --------------------------------------------------------- medical records
\* A MedicalRecord document: [id, patientId, doctor, date, diagnostic,
\* prescription, notes, attachments]; createdBy is a history field.
\* A request: body [date, diagnostic, prescription, notes, doctor, patientId]
\* and files, the sequence of the original names of the uploaded files.
\* An attachment: [filename (the storage name), originalName].
recordToJSON(r) ==
    [id |-> r.id, patientId |-> r.patientId, doctor |-> r.doctor,
     date |-> dateToJSON(r.date), diagnostic |-> r.diagnostic,
     prescription |-> r.prescription, notes |-> r.notes, attachments |-> r.attachments]

recordsToJSON(seq) == [i \in 1..Len(seq) |-> recordToJSON(seq[i])]

\* A file of a multipart request is named by its original name; Files gives
\* the media type its part declares and its size in bytes.
fileSize == 5 * 1024 * 1024

Files ==
    [n \in {"scan.pdf", "rx.png", "notes.txt", "big.pdf"} |->
        CASE n = "scan.pdf" -> [mimetype |-> "application/pdf", size |-> fileSize]
          [] n = "rx.png" -> [mimetype |-> "image/png", size |-> 2048]
          [] n = "notes.txt" -> [mimetype |-> "text/plain", size |-> 2048]
          [] n = "big.pdf" -> [mimetype |-> "application/pdf", size |-> fileSize + 1]]

allowedTypes == {"image/jpeg", "image/png", "application/pdf"}

\* fileFilter: cb(null, true) or cb(new Error(...))
fileFilter(n) == Files[n].mimetype \in allowedTypes

\* limits.fileSize: a file longer than the limit raises LIMIT_FILE_SIZE
withinLimit(n) == Files[n].size <= fileSize

\* upload.array('attachments') passes the request on when no file raised an
\* error; on an error multer removes the files it has written and calls
\* next(err)
uploadPasses(files) == \A i \in 1..Len(files) : fileFilter(files[i]) /\ withinLimit(files[i])

\* no error middleware is installed: Express answers next(err) with 500
UploadError(op, via, req) == Reply(op, via, req, 500, "Internal Server Error", <<>>)

\* MedicalRecords.handleFileChange: the files picked in the form that pass the
\* type and size test join selectedFiles, the others are dropped with one
\* message for both causes
isValidType(n) == Files[n].mimetype \in {"image/jpeg", "image/png", "application/pdf"}

isValidSize(n) == Files[n].size <= 5 * 1024 * 1024

validFiles(files) == SelectSeq(files, LAMBDA n : isValidType(n) /\ isValidSize(n))

handleFileChange(files) ==
    /\ Len(client.selectedFiles) + Len(validFiles(files)) <= MaxFiles
    /\ client' = [client EXCEPT !.selectedFiles = @ \o validFiles(files)]
    /\ resp' = Reply("handleFileChange", "client", [files |-> files], 0,
                     IF Len(validFiles(files)) # Len(files)
                     THEN "Certains fichiers ont ete ignores" ELSE "",
                     validFiles(files))
    /\ UNCHANGED <<users, patients, appointments, records, uploads, issued, now, lastId, gone,
                   pending>>

\* multer's upload.array('attachments'): every file of the request is written
\* to uploads/ under a generated name and listed in req.files
storedFiles(files) ==
    [i \in 1..Len(files) |-> [filename |-> lastId.file + i, originalName |-> files[i]]]

Upload(files) ==
    /\ lastId.file + Len(files) <= MaxFiles
    /\ uploads' = uploads \cup {lastId.file + i : i \in 1..Len(files)}

\* medicalRecordSchema: patientId, doctor, date, diagnostic, prescription
recordValid(body) ==
    /\ castable(body.date)
    /\ ~Falsy(body.diagnostic)
    /\ ~Falsy(body.prescription)

newRecord(body, patientId, caller, attachments) ==
    [id |-> lastId.record + 1, createdBy |-> caller, patientId |-> patientId,
     doctor |-> body.doctor, date |-> castDate(body.date), diagnostic |-> body.diagnostic,
     prescription |-> body.prescription, notes |-> body.notes,
     attachments |-> attachments]

\* MedicalRecord.find({ patientId, doctor: req.user.id })
findRecords(patientId, caller) ==
    {r \in records : r.patientId = patientId /\ r.doctor = caller}

\* MedicalRecord.find({ patientId: req.params.patientId }) of the records router
findRecords_router(patientId) == {r \in records : r.patientId = patientId}

\* MedicalRecord.findOne({ _id: id, doctor: req.user.id })
findOneRecord(id, caller) == {r \in records : r.id = id /\ r.doctor = caller}

\* GET /api/medical-records/:patientId of server.js and part_005
GetRecords(via, req, caller) ==
    /\ IF caller = NoUser
       THEN resp' = Unauthenticated("GetRecords", via, req)
       ELSE IF findOnePatient(req.patientId, caller) = {}
       THEN resp' = Reply("GetRecords", via, req, 404, "Patient non trouve", <<>>)
       ELSE resp' = Reply("GetRecords", via, req, 200, "",
                          recordsToJSON(byDateDesc(findRecords(req.patientId, caller))))
    /\ UNCHANGED <<users, patients, appointments, records, uploads, issued, now, lastId, gone,
                   pending, client>>

GetRecords_server(tok, patientId) ==
    GetRecords("server", [tok |-> tok, patientId |-> patientId], auth_server(tok))

GetRecords_part005(tok, patientId) ==
    GetRecords("part005", [tok |-> tok, patientId |-> patientId], auth_part005(tok))

\* GET /:patientId of the records router
GetRecords_router(tok, patientId) ==
    LET req == [tok |-> tok, patientId |-> patientId]
    IN  /\ IF auth_router(tok) = NoUser
           THEN resp' = Unauthenticated("GetRecords", "router", req)
           ELSE resp' = Reply("GetRecords", "router", req, 200, "",
                              recordsToJSON(byDateDesc(findRecords_router(patientId))))
        /\ UNCHANGED <<users, patients, appointments, records, uploads, issued, now, lastId, gone,
                       pending, client>>

\* POST /api/medical-records/:patientId of server.js and part_005:
\* auth, upload.array, then the handler
PostRecords(via, req, caller) ==
    LET doc == newRecord(stamp(req.body, caller), req.patientId, caller, storedFiles(req.files))
    IN  /\ IF caller = NoUser
           THEN /\ resp' = Unauthenticated("PostRecords", via, req)
                /\ UNCHANGED <<records, lastId, uploads>>
           ELSE IF ~uploadPasses(req.files)
           THEN /\ resp' = UploadError("PostRecords", via, req)
                /\ UNCHANGED <<records, lastId, uploads>>
           ELSE /\ Upload(req.files)
                /\ IF findOnePatient(req.patientId, caller) = {}
                   THEN /\ resp' = Reply("PostRecords", via, req, 404, "Patient non trouve", <<>>)
                        /\ records' = records
                        /\ lastId' = [lastId EXCEPT !.file = @ + Len(req.files)]
                   ELSE IF ~recordValid(req.body)
                   THEN /\ resp' = Reply("PostRecords", via, req, 400,
                                         "Erreur lors de la creation du dossier medical", <<>>)
                        /\ records' = records
                        /\ lastId' = [lastId EXCEPT !.file = @ + Len(req.files)]
                   ELSE /\ doc.id <= MaxRecords
                        /\ records' = records \cup {doc}
                        /\ lastId' = [lastId EXCEPT !.record = doc.id,
                                                    !.file = @ + Len(req.files)]
                        /\ resp' = Reply("PostRecords", via, req, 201, "", recordToJSON(doc))
        /\ UNCHANGED <<users, patients, appointments, issued, now, gone, pending, client>>

PostRecords_server(tok, patientId, body, files) ==
    PostRecords("server", [tok |-> tok, patientId |-> patientId, body |-> body, files |-> files],
                auth_server(tok))

PostRecords_part005(tok, patientId, body, files) ==
    PostRecords("part005", [tok |-> tok, patientId |-> patientId, body |-> body, files |-> files],
                auth_part005(tok))

\* router.post('/:patientId'): no patient lookup, no doctor in the document.
\* The schema file the router imports is not part of the sources: with the
\* medicalRecordSchema of server.js (doctorRequired) save() fails validation,
\* with a schema that does not require doctor the record is stored.
PostRecords_router(tok, patientId, body, doctorRequired) ==
    LET req == [tok |-> tok, patientId |-> patientId, body |-> body, files |-> <<>>]
        caller == auth_router(tok)
        doc == newRecord([body EXCEPT !.doctor = NoUser], patientId, caller, <<>>)
    IN  /\ IF caller = NoUser
           THEN /\ resp' = Unauthenticated("PostRecords", "router", req)
                /\ UNCHANGED <<records, lastId>>
           ELSE IF ~recordValid(body) \/ doctorRequired
           THEN /\ resp' = Reply("PostRecords", "router", req, 400, "validation failed", <<>>)
                /\ UNCHANGED <<records, lastId>>
           ELSE /\ doc.id <= MaxRecords
                /\ records' = records \cup {doc}
                /\ lastId' = [lastId EXCEPT !.record = doc.id]
                /\ resp' = Reply("PostRecords", "router", req, 201, "", recordToJSON(doc))
        /\ UNCHANGED <<users, patients, appointments, uploads, issued, now, gone, pending, client>>

\* [...(record.attachments || []), ...newAttachments]
mergeAttachments(old, new) == old \o new

\* findByIdAndUpdate(id, { ...req.body, attachments }): the paths the body
\* carries are cast and set, no validators run
setRecord(r, body, attachments) ==
    [r EXCEPT
       !.date = IF body.date.form = "absent" THEN @ ELSE castDate(body.date),
       !.diagnostic = IF body.diagnostic = Absent THEN @ ELSE body.diagnostic,
       !.prescription = IF body.prescription = Absent THEN @ ELSE body.prescription,
       !.notes = IF body.notes = Absent THEN @ ELSE body.notes,
       !.doctor = IF body.doctor = NoUser THEN @ ELSE body.doctor,
       !.patientId = IF body.patientId = 0 THEN @ ELSE body.patientId,
       !.attachments = attachments]

RecordNotFound(op, via, req) == Reply(op, via, req, 404, "Dossier medical non trouve", <<>>)

\* PUT /api/medical-records/:id of server.js
PutRecords_server(tok, id, body, files) ==
    LET req == [tok |-> tok, id |-> id, body |-> body, files |-> files]
        caller == auth_server(tok)
        found == findOneRecord(id, caller)
    IN  /\ IF caller = NoUser
           THEN /\ resp' = Unauthenticated("PutRecords", "server", req)
                /\ UNCHANGED <<records, lastId, uploads>>
           ELSE IF ~uploadPasses(files)
           THEN /\ resp' = UploadError("PutRecords", "server", req)
                /\ UNCHANGED <<records, lastId, uploads>>
           ELSE /\ Upload(files)
                /\ lastId' = [lastId EXCEPT !.file = @ + Len(files)]
                /\ IF found = {}
                   THEN resp' = RecordNotFound("PutRecords", "server", req) /\ UNCHANGED records
                   ELSE IF body.date.form = "invalid"
                   THEN /\ resp' = Reply("PutRecords", "server", req, 500,
                                         "Erreur lors de la modification du dossier medical", <<>>)
                        /\ UNCHANGED records
                   ELSE LET old == CHOOSE r \in found : TRUE
                            new == setRecord(old, body,
                                             mergeAttachments(old.attachments, storedFiles(files)))
                        IN  /\ records' = (records \ {old}) \cup {new}
                            /\ resp' = Reply("PutRecords", "server", req, 200, "", recordToJSON(new))
        /\ UNCHANGED <<users, patients, appointments, issued, now, gone, pending, client>>

\* router.put('/:id'): no upload middleware, the files of the request are not
\* read; a field is assigned when the body carries a truthy value (notes:
\* when it is there at all); save() validates
assignRecord(r, body) ==
    [r EXCEPT
       !.date = IF body.date.form = "absent" THEN @ ELSE castDate(body.date),
       !.diagnostic = IF Falsy(body.diagnostic) THEN @ ELSE body.diagnostic,
       !.prescription = IF Falsy(body.prescription) THEN @ ELSE body.prescription,
       !.notes = IF body.notes = Absent THEN @ ELSE body.notes]

PutRecords_router(tok, id, body, files) ==
    LET req == [tok |-> tok, id |-> id, body |-> body, files |-> files]
        caller == auth_router(tok)
        found == {r \in records : r.id = id}
    IN  /\ IF caller = NoUser
           THEN resp' = Unauthenticated("PutRecords", "router", req) /\ UNCHANGED records
           ELSE IF found = {}
           THEN resp' = RecordNotFound("PutRecords", "router", req) /\ UNCHANGED records
           ELSE IF body.date.form = "invalid"
           THEN /\ resp' = Reply("PutRecords", "router", req, 400, "Cast to date failed", <<>>)
                /\ UNCHANGED records
           ELSE LET old == CHOOSE r \in found : TRUE
                    new == assignRecord(old, body)
                IN  /\ records' = (records \ {old}) \cup {new}
                    /\ resp' = Reply("PutRecords", "router", req, 200, "", recordToJSON(new))
        /\ UNCHANGED <<users, patients, appointments, uploads, issued, now, lastId, gone,
                       pending, client>>

\* the storage names of a record's attachments
filenames(r) == {r.attachments[i].filename : i \in 1..Len(r.attachments)}

\* MedicalRecord.deleteOne({ _id: id })
deleteOneRecord_Keeps(id) == records

deleteOneRecord(id) == {r \in records : r.id # id}

\* The loop over record.attachments: fs.unlink of each storage name inside its
\* own try/catch; the names in failed are those whose unlink throws.  The
\* result is the names removed from uploads/.
unlinkEach_AbortOnFailure(names, failed) ==
    {n \in names \cap uploads : \A f \in failed : n < f}

unlinkEach(names, failed) == (names \cap uploads) \ failed

\* DELETE /api/medical-records/:id of server.js: findOne, the unlink loop,
\* then deleteOne
DeleteRecords_server(tok, id, failed) ==
    LET req == [tok |-> tok, id |-> id, unlinkFails |-> failed]
        caller == auth_server(tok)
        found == findOneRecord(id, caller)
    IN  /\ IF caller = NoUser
           THEN /\ failed = {}
                /\ resp' = Unauthenticated("DeleteRecords", "server", req)
                /\ UNCHANGED <<records, uploads, gone>>
           ELSE IF found = {}
           THEN /\ failed = {}
                /\ resp' = RecordNotFound("DeleteRecords", "server", req)
                /\ UNCHANGED <<records, uploads, gone>>
           ELSE LET old == CHOOSE r \in found : TRUE
                    unlinked == unlinkEach(filenames(old), failed)
                IN  /\ failed \subseteq filenames(old)
                    /\ uploads' = uploads \ unlinked
                    /\ records' = deleteOneRecord(id)
                    /\ gone' = [records |-> gone.records \cup {id},
                                files |-> gone.files \cup unlinked]
                    /\ resp' = Reply("DeleteRecords", "server", req, 200,
                                     "Dossier medical supprime avec succes", <<>>)
        /\ UNCHANGED <<users, patients, appointments, issued, now, lastId, pending, client>>

\* router.delete('/:id'): findById, deleteOne; the files stay
DeleteRecords_router(tok, id) ==
    LET req == [tok |-> tok, id |-> id]
        caller == auth_router(tok)
        found == {r \in records : r.id = id}
    IN  /\ IF caller = NoUser
           THEN /\ resp' = Unauthenticated("DeleteRecords", "router", req)
                /\ UNCHANGED <<records, gone, pending, client>>
           ELSE IF found = {}
           THEN /\ resp' = RecordNotFound("DeleteRecords", "router", req)
                /\ UNCHANGED <<records, gone, pending, client>>
           ELSE /\ records' = deleteOneRecord(id)
                /\ gone' = [gone EXCEPT !.records = @ \cup {id}]
                /\ resp' = Reply("DeleteRecords", "router", req, 200,
                                 "Dossier medical supprime", <<>>)
        /\ UNCHANGED <<users, patients, appointments, uploads, issued, now, lastId,
                       pending, client>>

\* fs.access(path.join('uploads', filename))
access(filename) == filename \in uploads

\* GET /api/medical-records/attachment/:filename of server.js
GetAttachment_server(tok, filename) ==
    LET req == [tok |-> tok, filename |-> filename]
    IN  /\ IF auth_server(tok) = NoUser
           THEN resp' = Unauthenticated("GetAttachment", "server", req)
           ELSE IF ~access(filename)
           THEN resp' = Reply("GetAttachment", "server", req, 404, "Fichier non trouve", <<>>)
           ELSE resp' = Reply("GetAttachment", "server", req, 200, "", <<filename>>)
        /\ UNCHANGED <<users, patients, appointments, records, uploads, issued, now, lastId, gone,
                       pending, client>>

\* ===================================================== accounts and sessions
\* Specification SpecAuth: login, account management and the three
\* authentication middlewares in front of a protected route, under a clock.
Presented == issued \cup {MissingHeader, Malformed, Forged(1)}

LoginEmails == {"admin@example.com", "a@clinic", "nobody@clinic", ""}

LoginPasswords == {"1234", "admin123", "pw", ""}

NewUserBodies ==
    [email : {"a@clinic", "b@clinic"}, password : {"pw"}, role : {Absent, "admin"},
     nom : {"Roux"}, prenom : {Absent}]

UserIds == 1..MaxUsers

NextAuth ==
    \/ \E e \in LoginEmails, p \in LoginPasswords : Login_server(e, p)
    \/ \E e \in LoginEmails, p \in LoginPasswords : Login_part005(e, p)
    \/ \E t \in Presented, b \in NewUserBodies : PostUsers_server(t, b)
    \/ \E t \in Presented, b \in NewUserBodies : PostUsers_part005(t, b)
    \/ \E t \in Presented, id \in UserIds : DeleteUser_server(t, id)
    \/ \E t \in Presented, id \in UserIds : DeleteUser_part005(t, id)
    \/ \E t \in Presented : GetPatients_server(t)
    \/ \E t \in Presented : GetPatients_part005(t)
    \/ \E t \in Presented : GetPatients_router(t)
    \/ Tick

SpecAuth == Init /\ [][NextAuth]_vars

\* a token that proves an identity: signed here, not expired, its user exists
TokenGood(tok) ==
    /\ tok.kind = "jwt" /\ tok \in issued /\ now < tok.exp
    /\ \E u \in users : u.id = tok.userId

Protected == {"PostUsers", "DeleteUser", "GetPatients", "PostPatients", "PutPatients"}

\* C5: deleting an admin fails and changes no user when it is the only
\* admin; with another admin present it succeeds and removes exactly that user.
C5_LastAdminDelete ==
    [][ (/\ resp'.op = "DeleteUser"
         /\ TokenGood(resp'.req.tok)
         /\ \E a \in users : a.id = resp'.req.tok.userId /\ a.role = "admin"
         /\ \E t \in users : t.id = resp'.req.id /\ t.role = "admin")
        => IF countAdmins <= 1
           THEN resp'.status >= 400 /\ users' = users
           ELSE resp'.status = 200 /\ users' = {u \in users : u.id # resp'.req.id} ]_vars

\* C9: a login with a registered email and a wrong password and a login with
\* an unregistered email get the same answer, 401 with one message, no token.
WrongPassword(via, email, password) ==
    \E u \in users :
        /\ u.email = email
        /\ IF via = "server" THEN u.password # Plain(password) ELSE u.password # hash(password)

UnknownEmail(email) == \A u \in users : u.email # email

C10_RejectsBadTokens ==
    [][ (resp'.op \in Protected /\ ~TokenGood(resp'.req.tok)) => resp'.status = 401 ]_vars

\* ============================================================ ownership
\* The accounts the practitioners' requests need: the seeded admin logs in
\* and creates them, they log in.
Credentials == {<<"admin@example.com", "1234">>, <<"a@clinic", "pw">>, <<"b@clinic", "pw">>}

Staff ==
    [email : {"a@clinic", "b@clinic"}, password : {"pw"}, role : {Absent},
     nom : {"Roux"}, prenom : {Absent}]

Setup ==
    \/ \E c \in Credentials : Login_server(c[1], c[2])
    \/ \E t \in issued, b \in Staff : PostUsers_server(t, b)

\* a body field naming an owner: none, or some user
Owners == {NoUser} \cup (2..MaxUsers)

PatientIds == 1..MaxPatients

OnePatient ==
    [nom |-> "Durand", prenom |-> "Ana", dateNaissance |-> Ymd(7),
     telephone |-> "+2126123456", email |-> "ana@mail", doctor |-> NoUser]

NoPatientChange ==
    [nom |-> Absent, prenom |-> Absent, dateNaissance |-> AbsentDate,
     telephone |-> Absent, email |-> Absent, doctor |-> NoUser]

\* ------------------------------------------------------------ SpecPatients
NewPatientBodies ==
    {[OnePatient EXCEPT !.dateNaissance = d, !.doctor = o] :
        d \in {Ymd(7), Iso(608400000)}, o \in Owners}
    \cup {[OnePatient EXCEPT !.nom = ""], [OnePatient EXCEPT !.telephone = Absent],
          [OnePatient EXCEPT !.dateNaissance = NotADate]}

PatientUpdates ==
    {[NoPatientChange EXCEPT !.nom = "Martin"], [NoPatientChange EXCEPT !.nom = ""],
     [NoPatientChange EXCEPT !.dateNaissance = NotADate]}
    \cup {[NoPatientChange EXCEPT !.doctor = o] : o \in 2..MaxUsers}

NextPatients ==
    \/ Setup
    \/ \E t \in issued : GetPatients_server(t)
    \/ \E t \in issued, b \in NewPatientBodies : PostPatients_server(t, b)
    \/ \E t \in issued, id \in PatientIds, b \in PatientUpdates : PutPatients_server(t, id, b)

SpecPatients == Init /\ [][NextPatients]_vars

\* C3: the owner of a Patient, Appointment or MedicalRecord is its creator,
\* whatever updates were requested since.
C3_OwnerNeverChanges ==
    /\ \A p \in patients : p.doctor = p.createdBy
    /\ \A a \in appointments : a.doctor = a.createdBy
    /\ \A r \in records : r.doctor = r.createdBy

\* what GET /api/patients answers to caller c in this state
readBack(c) == patientsToJSON(byId(findPatients(c)))

Created == resp.op = "PostPatients" /\ resp.status = 201

\* C8 as stated: after createPatient(data) by c, the patient read back by c
\* equals data in nom, prenom, dateNaissance, telephone and email, owner c.
C8_RoundTripVerbatim ==
    Created =>
        \E i \in 1..Len(readBack(resp.req.tok.userId)) :
            LET got == readBack(resp.req.tok.userId)[i]
                data == resp.req.body
            IN  /\ got.id = resp.out.id
                /\ got.nom = data.nom /\ got.prenom = data.prenom
                /\ got.telephone = data.telephone /\ got.email = data.email
                /\ got.dateNaissance = data.dateNaissance
                /\ got.doctor = resp.req.tok.userId

\* C8 amended: the text fields come back verbatim, dateNaissance comes back
\* as the ISO-8601 timestamp of the same instant, the owner is c.
C8_RoundTrip ==
    Created =>
        \E i \in 1..Len(readBack(resp.req.tok.userId)) :
            LET got == readBack(resp.req.tok.userId)[i]
                data == resp.req.body
            IN  /\ got.id = resp.out.id
                /\ got.nom = data.nom /\ got.prenom = data.prenom
                /\ got.telephone = data.telephone /\ got.email = data.email
                /\ got.dateNaissance = Iso(castDate(data.dateNaissance))
                /\ got.doctor = resp.req.tok.userId

C8_Witness ==
    /\ Created
    /\ resp.req.body.dateNaissance.form = "ymd"
    /\ resp.req.body.doctor \notin {NoUser, resp.req.tok.userId}
    /\ Len(readBack(resp.req.tok.userId)) = 2

\* -------------------------------------------------------------- SpecCreate
\* The three create operations, each with a body that names every possible
\* owner or none.
OneAppointment ==
    [patient |-> 1, date |-> Ymd(9), heure |-> <<"0", "9", ":", "3", "0">>,
     motif |-> "controle", doctor |-> NoUser, status |-> Absent]

OneRecord ==
    [date |-> Ymd(9), diagnostic |-> "grippe", prescription |-> "repos", notes |-> "",
     doctor |-> NoUser, patientId |-> 0]

NextCreate ==
    \/ Setup
    \/ \E t \in issued, o \in Owners :
           PostPatients_server(t, [OnePatient EXCEPT !.doctor = o])
    \/ \E t \in issued, o \in Owners :
           PostAppointments_server(t, [OneAppointment EXCEPT !.doctor = o])
    \/ \E t \in issued, o \in Owners, p \in PatientIds :
           PostRecords_server(t, p, [OneRecord EXCEPT !.doctor = o], <<>>)

SpecCreate == Init /\ [][NextCreate]_vars

ids(docs) == {d.id : d \in docs}

\* C2: a document stored by a create operation is owned by the caller the
\* request's token was issued to, whatever owner the body names.
C2_CreateStampsCaller ==
    [][ /\ \A p \in patients' : p.id \notin ids(patients) => p.doctor = resp'.req.tok.userId
        /\ \A a \in appointments' :
               a.id \notin ids(appointments) => a.doctor = resp'.req.tok.userId
        /\ \A r \in records' : r.id \notin ids(records) => r.doctor = resp'.req.tok.userId
      ]_vars

C2_Witness ==
    /\ resp.op = "PostAppointments"
    /\ resp.status = 201
    /\ resp.req.body.doctor \notin {NoUser, resp.req.tok.userId}
    /\ \E a \in appointments : a.id = resp.out.id /\ a.doctor = resp.req.tok.userId

\* -------------------------------------------------------- SpecAppointments
Heures ==
    { <<"0", "7", ":", "5", "9">>, <<"0", "8", ":", "0", "0">>,
      <<"1", "7", ":", "5", "9">>, <<"1", "8", ":", "0", "0">> }

Forms == [patient : {1}, date : {Ymd(9)}, heure : Heures, motif : {"controle"}]

Backends == {"server", "part005"}

NoAppointmentChange ==
    [patient |-> 0, date |-> AbsentDate, heure |-> <<>>, motif |-> Absent,
     doctor |-> NoUser, status |-> Absent]

AppointmentUpdates ==
    {[NoAppointmentChange EXCEPT !.motif = "suivi"], [NoAppointmentChange EXCEPT !.date = NotADate]}

AppointmentIds == 1..MaxAppointments

NextAppointments ==
    \/ Setup
    \/ \E t \in issued : PostPatients_server(t, OnePatient)
    \/ \E t \in issued : GetAppointments_server(t)
    \/ \E t \in issued : GetAppointments_part005(t)
    \/ \E t \in issued, f \in Forms : PostAppointments_server(t, formBody(f))
    \/ \E t \in issued, f \in Forms : PostAppointments_part005(t, formBody(f))
    \/ \E v \in Backends, t \in issued, f \in Forms : Appointments_handleSubmit(v, t, f)
    \/ \E v \in Backends, t \in issued, f \in Forms : Dashboard_handleSubmit(v, t, f)
    \/ \E t \in issued, id \in AppointmentIds, b \in AppointmentUpdates :
           PutAppointments_part005(t, id, b)

SpecAppointments == Init /\ [][NextAppointments]_vars

\* the creator of the stored document a returned document stands for
creatorIn(docs, d) == (CHOOSE x \in docs : x.id = d.id).createdBy

practitioner(id) == \E u \in users : u.id = id /\ u.role = "medecin"

\* whether a document created by a may be returned to the caller c
mayRead(c, a) == ~(a # c /\ practitioner(a) /\ practitioner(c))

\* C1: for two distinct practitioners A and B, no list operation invoked by B
\* returns a patient, an appointment, the patient embedded in an appointment,
\* or a medical record that A created.
C1_ReadsAreOwnerScoped ==
    LET c == resp.req.tok.userId
    IN  /\ (resp.op = "GetPatients" /\ resp.status = 200) =>
               \A i \in 1..Len(resp.out) : mayRead(c, creatorIn(patients, resp.out[i]))
        /\ (resp.op = "GetAppointments" /\ resp.status = 200) =>
               \A i \in 1..Len(resp.out) :
                   /\ mayRead(c, creatorIn(appointments, resp.out[i]))
                   /\ \A j \in 1..Len(resp.out[i].patient) :
                          mayRead(c, creatorIn(patients, resp.out[i].patient[j]))
        /\ (resp.op = "GetRecords" /\ resp.status = 200) =>
               \A i \in 1..Len(resp.out) : mayRead(c, creatorIn(records, resp.out[i]))

inWindow(heure) == 8 <= hoursOf(heure) /\ hoursOf(heure) < 18

\* C4: an appointment is created exactly when the hour of its time-of-day is
\* in [8, 18), on every path: API request, Appointments form, Dashboard form.
C4_HourWindow ==
    /\ (resp.op = "PostAppointments" /\ resp.status = 201) => inWindow(resp.req.body.heure)
    /\ (resp.op = "PostAppointments" /\ resp.status = 400) => ~inWindow(resp.req.body.heure)
    /\ (resp.op = "setTimeError") => ~inWindow(resp.req.body.heure)

\* ------------------------------------------------------------- SpecRecords
Uploads == {<<>>, <<"scan.pdf">>, <<"scan.pdf", "rx.png">>}

NoRecordChange ==
    [date |-> AbsentDate, diagnostic |-> Absent, prescription |-> Absent, notes |-> Absent,
     doctor |-> NoUser, patientId |-> 0]

RecordUpdates == {NoRecordChange, [NoRecordChange EXCEPT !.notes = "vu"]}

RecordIds == 1..MaxRecords

FileNames == 1..MaxFiles

NextRecords ==
    \/ \E c \in Credentials : Login_server(c[1], c[2])
    \/ \E t \in issued : PostPatients_server(t, OnePatient)
    \/ \E t \in issued, p \in PatientIds : GetRecords_server(t, p)
    \/ \E t \in issued, p \in PatientIds : GetRecords_router(t, p)
    \/ \E t \in issued, p \in PatientIds, f \in Uploads : PostRecords_server(t, p, OneRecord, f)
    \/ \E t \in issued, p \in PatientIds, d \in BOOLEAN : PostRecords_router(t, p, OneRecord, d)
    \/ \E t \in issued, id \in RecordIds, b \in RecordUpdates, f \in Uploads :
           PutRecords_server(t, id, b, f)
    \/ \E t \in issued, id \in RecordIds, b \in RecordUpdates, f \in Uploads :
           PutRecords_router(t, id, b, f)
    \/ \E t \in issued, id \in RecordIds, failed \in SUBSET FileNames :
           DeleteRecords_server(t, id, failed)
    \/ \E t \in issued, id \in RecordIds : DeleteRecords_router(t, id)
    \/ \E t \in issued, f \in FileNames : GetAttachment_server(t, f)

SpecRecords == Init /\ [][NextRecords]_vars

attachmentsOf(docs, id) == (CHOOSE r \in docs : r.id = id).attachments

\* C6: a successful update that uploads k files on a record holding n
\* attachments leaves n + k attachments: the n old ones, in order, then the
\* k new ones.
C6_UpdateAppendsAttachments ==
    [][ (resp'.op = "PutRecords" /\ resp'.status = 200) =>
            LET old == attachmentsOf(records, resp'.req.id)
                new == attachmentsOf(records', resp'.req.id)
                files == resp'.req.files
            IN  /\ Len(new) = Len(old) + Len(files)
                /\ SubSeq(new, 1, Len(old)) = old
                /\ \A i \in 1..Len(files) : new[Len(old) + i].originalName = files[i]
      ]_vars

\* C7: a record that was deleted is in no later list answer, and a download
\* of a storage name that was unlinked is answered 404.
C7_DeletedStaysGone ==
    /\ \A r \in records : r.id \notin gone.records
    /\ (resp.op = "GetRecords" /\ resp.status = 200) =>
           \A i \in 1..Len(resp.out) : resp.out[i].id \notin gone.records
    /\ (resp.op = "GetAttachment" /\ resp.req.filename \in gone.files) => resp.status = 404

C7_Witness ==
    /\ resp.op = "GetAttachment"
    /\ resp.req.filename \in gone.files
    /\ resp.status = 404
    /\ records # {}

\* ================================================================ accounts
\* Specification SpecUsers: the account routes of server.js, PUT
\* /api/users/:id of part_005 and the profile handler, called by the seeded
\* admin and by the accounts it creates.
Accounts == {<<"admin@example.com", "1234">>, <<"a@clinic", "pw">>}

OneStaff ==
    [email |-> "a@clinic", password |-> "pw", role |-> Absent, nom |-> "Roux", prenom |-> Absent]

UserUpdates ==
    [email : {"a@clinic", "admin@example.com"}, nom : {"Roux"}, prenom : {"Lea"},
     role : {"medecin", "admin"}, password : {Absent}]

OwnUpdates ==
    [email : {Absent, "admin@example.com"}, nom : {Absent, "Petit"}, prenom : {Absent},
     role : {Absent}, password : {Absent}]

ProfileBodies ==
    [currentPassword : {"pw", "bad"}, newPassword : {Absent, "new"},
     nom : {Absent, "Petit"}, prenom : {Absent}, email : {Absent, "admin@example.com"}]

NextUsers ==
    \/ \E c \in Accounts : Login_server(c[1], c[2])
    \/ \E t \in issued : PostUsers_server(t, OneStaff)
    \/ \E t \in issued : GetUsers_server(t)
    \/ \E t \in issued : GetUsers_part005(t)
    \/ \E t \in issued, id \in UserIds, b \in UserUpdates : PutUsers_server(t, id, b)
    \/ \E t \in issued, id \in UserIds, b \in OwnUpdates : PutUsers_part005(t, id, b)
    \/ \E t \in issued, id \in UserIds : DeleteUser_server(t, id)
    \/ \E t \in issued, b \in ProfileBodies : PutProfile_server(t, b)

SpecUsers == Init /\ [][NextUsers]_vars

AccountOps == {"GetUsers", "PostUsers", "PutUsers", "DeleteUser"}

\* C11: an account-management request on /users by an authenticated caller
\* whose role is not admin is answered 403 and leaves the users unchanged.
C11_AdminOnlyAccounts ==
    [][ (/\ resp'.op \in AccountOps
         /\ TokenGood(resp'.req.tok)
         /\ TheUser(resp'.req.tok.userId).role # "admin")
            => (resp'.status = 403 /\ users' = users) ]_vars

ForeignPatientUpdates ==
    {[NoPatientChange EXCEPT !.nom = "Martin"], [NoPatientChange EXCEPT !.dateNaissance = NotADate]}

NextForeign ==
    \/ Setup
    \/ \E t \in issued : PostPatients_server(t, OnePatient)
    \/ \E t \in issued : PostAppointments_part005(t, OneAppointment)
    \/ \E t \in issued, id \in PatientIds, b \in ForeignPatientUpdates :
           PutPatients_server(t, id, b)
    \/ \E t \in issued, id \in PatientIds : DeletePatients_server(t, id)
    \/ \E t \in issued, id \in AppointmentIds, b \in AppointmentUpdates :
           PutAppointments_part005(t, id, b)
    \/ \E t \in issued, id \in AppointmentIds : DeleteAppointments_part005(t, id)

SpecForeign == Init /\ [][NextForeign]_vars

\* the collection an update or delete request addresses
targets(op) ==
    IF op \in {"PutPatients", "DeletePatients"} THEN patients ELSE appointments

\* the 404 response of each request
notFound(r) ==
    /\ r.status = 404
    /\ r.out = <<>>
    /\ r.msg = IF r.op \in {"PutPatients", "DeletePatients"}
               THEN "Patient non trouve" ELSE "Rendez-vous non trouve"

\* an update or delete request of an authenticated caller who owns no entity
\* with the id it names
byNonOwner(r) ==
    /\ r.op \in {"PutPatients", "DeletePatients", "PutAppointments", "DeleteAppointments"}
    /\ TokenGood(r.req.tok)
    /\ ~\E e \in targets(r.op) : e.id = r.req.id /\ e.doctor = r.req.tok.userId

castableBody(r) ==
    r.op \in {"PutPatients", "PutAppointments"} =>
        (IF r.op = "PutPatients" THEN r.req.body.dateNaissance ELSE r.req.body.date) # NotADate

C14_RecordsOfForeignPatient ==
    [][ (/\ resp'.op \in {"GetRecords", "PostRecords"}
         /\ resp'.via \in {"server", "router"} /\ (resp'.via = "router" => resp'.op = "PostRecords")
         /\ TokenGood(resp'.req.tok)
         /\ ~\E p \in patients : p.id = resp'.req.patientId /\ p.doctor = resp'.req.tok.userId)
            => (resp'.status = 404 /\ records' = records) ]_vars

\* C15: deleting a record the caller owns removes it and answers 200 whichever
\* unlinks fail, and every attachment file whose unlink does not fail is
\* removed from storage.
C15_DeleteSurvivesUnlinkFailure ==
    [][ (/\ resp'.op = "DeleteRecords" /\ resp'.via = "server"
         /\ TokenGood(resp'.req.tok)
         /\ \E r \in records : r.id = resp'.req.id /\ r.doctor = resp'.req.tok.userId)
            => LET old == CHOOSE r \in records : r.id = resp'.req.id
               IN  /\ resp'.status = 200
                   /\ old \notin records'
                   /\ \A n \in filenames(old) \ resp'.req.unlinkFails : n \notin uploads'
                   /\ \A n \in resp'.req.unlinkFails : n \in uploads => n \in uploads'
      ]_vars

\* a delete during which the unlink of the first file failed: the record is
\* gone, the failing file is still stored, the other one is not
C15_Witness ==
    /\ resp.op = "DeleteRecords" /\ resp.via = "server" /\ resp.status = 200
    /\ resp.req.unlinkFails # {}
    /\ resp.req.id \in gone.records
    /\ \E n \in gone.files : \A f \in resp.req.unlinkFails : f < n
    /\ resp.req.unlinkFails \subseteq uploads

\* ------------------------------------------------------------ AuthProvider
\* resetTimeout: clearTimeout, then setTimeout(logout, TIMEOUT_DURATION) when
\* a user is set
resetTimeout_NoRearm(c) == c

resetTimeout(c) ==
    [c EXCEPT !.timer = IF c.user # NoUser THEN TIMEOUT_DURATION ELSE NoTimer]

\* a page load: AuthProvider mounts with the user parsed from localStorage
\* 'user'; the effect arms the timer when there is one
reload(c) ==
    resetTimeout([c EXCEPT !.user = c.cached, !.selectedFiles = <<>>, !.formData = resetForm])

\* the response interceptor of axios (services/api.ts): on 401 the token is
\* removed from localStorage and window.location.href = '/login' loads the
\* page anew
interceptor(c, status) ==
    IF status = 401 THEN reload([c EXCEPT !.token = MissingHeader]) ELSE c

\* api.getUsers: GET /users with the token of localStorage
getUsers ==
    LET req == [tok |-> client.token]
        caller == auth_server(client.token)
        r == IF caller = NoUser THEN Unauthenticated("getUsers", "client", req)
             ELSE IF ~adminAuth(caller) THEN Forbidden("getUsers", "client", req)
             ELSE Reply("getUsers", "client", req, 200, "", usersToJSON(users))
    IN  /\ resp' = r
        /\ client' = interceptor(client, r.status)
        /\ UNCHANGED <<users, patients, appointments, records, uploads, issued, now, lastId, gone,
                       pending>>

\* login: the request to /auth/login; on 200 the token and the user go to
\* localStorage and setUser(user) re-runs the effect, which arms the timer.
\* The login form calls it from its submit handler: with a user set, the
\* click or keypress that submits the form has reached the window listeners
\* first.
login(email, password) ==
    LET r == LoginResult_server(email, password)
        seen == IF client.user # NoUser THEN [resetTimeout(client) EXCEPT !.idle = 0] ELSE client
    IN  /\ r.status = 200 => (r.out.token \in issued \/ Cardinality(issued) < MaxTokens)
        /\ resp' = Reply("login", "client", r.req, r.status, r.msg, r.out)
        /\ issued' = IF r.status = 200 THEN issued \cup {r.out.token} ELSE issued
        /\ client' = IF r.status = 200
                      THEN resetTimeout([seen EXCEPT !.token = r.out.token,
                                                     !.cached = r.out.user.id,
                                                     !.user = r.out.user.id])
                      ELSE interceptor(seen, r.status)
        /\ UNCHANGED <<users, patients, appointments, records, uploads, now, lastId, gone,
                       pending>>

\* logout: from the logout button (via = "button") or as the callback of the
\* inactivity timer (via = "timer")
logout_Revoking(via) ==
    /\ via = "timer" => client.timer = 0
    /\ client' = [client EXCEPT !.timer = NoTimer, !.token = MissingHeader,
                                !.cached = NoUser, !.user = NoUser, !.atLogout = issued]
    /\ resp' = Reply("logout", via, <<>>, 0, "", <<>>)
    /\ issued' = issued \ {client.token}
    /\ UNCHANGED <<users, patients, appointments, records, uploads, now, lastId, gone,
                   pending>>

logout(via) ==
    /\ via = "timer" => client.timer = 0
    /\ client' = [client EXCEPT !.timer = NoTimer, !.token = MissingHeader,
                                !.cached = NoUser, !.user = NoUser, !.atLogout = issued]
    /\ resp' = Reply("logout", via, <<>>, 0, "", <<>>)
    /\ UNCHANGED <<users, patients, appointments, records, uploads, issued, now, lastId, gone,
                   pending>>

\* handleActivity: the listener of mousemove, keypress, click and scroll,
\* registered while a user is set
ActivityEvents == {"mousemove", "keypress", "click", "scroll"}

handleActivity(event) ==
    /\ client.user # NoUser
    /\ client' = [resetTimeout(client) EXCEPT !.idle = 0]
    /\ resp' = Reply("handleActivity", "client", [event |-> event], 0, "", <<>>)
    /\ UNCHANGED <<users, patients, appointments, records, uploads, issued, now, lastId, gone,
                   pending>>

\* d ms pass in the browser with the timer armed, with no event and no
\* timer callback
Elapse(d) ==
    /\ client.timer > 0
    /\ client' = [client EXCEPT
                      !.timer = IF @ > d THEN @ - d ELSE 0,
                      !.idle = IF @ + d < TIMEOUT_DURATION THEN @ + d ELSE TIMEOUT_DURATION]
    /\ resp' = Reply("Elapse", "none", [d |-> d], 0, "", <<>>)
    /\ UNCHANGED <<users, patients, appointments, records, uploads, issued, now, lastId, gone,
                   pending>>

\* -------------------------------------------------------------- SpecUpload
AnyUploads ==
    {<<"scan.pdf">>, <<"notes.txt">>, <<"big.pdf">>, <<"rx.png", "notes.txt">>}

NextUpload ==
    \/ Login_server("admin@example.com", "1234")
    \/ \E t \in issued : PostPatients_server(t, OnePatient)
    \/ \E t \in issued, p \in PatientIds, f \in AnyUploads :
           PostRecords_server(t, p, OneRecord, f)
    \/ \E t \in issued, p \in PatientIds, f \in AnyUploads :
           PostRecords_part005(t, p, OneRecord, f)
    \/ \E t \in issued, id \in RecordIds, b \in RecordUpdates, f \in AnyUploads :
           PutRecords_server(t, id, b, f)
    \/ \E f \in AnyUploads : handleFileChange(f)

SpecUpload == Init /\ [][NextUpload]_vars

acceptable(n) == Files[n].mimetype \in allowedTypes /\ Files[n].size <= fileSize

\* C16: a file is accepted exactly when its media type is image/jpeg,
\* image/png or application/pdf and its size is at most 5 MB; a request with
\* a file of another type is answered 415 (UnsupportedMediaType), one with a
\* file that is too large 413 (PayloadTooLarge), and a rejected file joins no
\* medical record and no form selection.
C16_UploadFilter ==
    [][
        /\ (/\ resp'.op \in {"PostRecords", "PutRecords"}
            /\ resp'.via \in {"server", "part005"}
            /\ resp'.status # 401)
           => LET files == resp'.req.files
                  badType == \E i \in 1..Len(files) : Files[files[i]].mimetype \notin allowedTypes
                  tooLarge == \E i \in 1..Len(files) : Files[files[i]].size > fileSize
              IN  /\ (badType \/ tooLarge) => /\ resp'.status \in {413, 415}
                                               /\ records' = records
                                               /\ uploads' = uploads
                  /\ resp'.status = 415 => badType
                  /\ resp'.status = 413 => tooLarge
        /\ resp'.op = "handleFileChange"
           => \A i \in 1..Len(client'.selectedFiles) : acceptable(client'.selectedFiles[i])
    ]_vars

\* -------------------------------------------------------------- SpecClient
NextClient ==
    \/ \E c \in Accounts \cup {<<"admin@example.com", "bad">>} : login(c[1], c[2])
    \/ \E via \in {"button", "timer"} : logout(via)
    \/ \E e \in ActivityEvents : handleActivity(e)
    \/ Elapse(IdleStep)
    \/ Tick
    \/ \E t \in issued : PostUsers_server(t, OneStaff)
    \/ \E t \in issued, id \in UserIds : DeleteUser_server(t, id)
    \/ \E t \in issued : GetPatients_server(t)

SpecClient == Init /\ [][NextClient]_vars

\* the browser keeps running: time passes and a due timer callback runs
FairClient == SpecClient /\ WF_vars(Elapse(IdleStep)) /\ WF_vars(logout("timer"))

serverState == <<users, patients, appointments, records, uploads, issued, now>>

\* C17: logout changes no server-side state, and a token issued before a
\* logout still authenticates a request before its expiry while its user
\* exists.
C17_LogoutIsClientOnly ==
    [][
        /\ resp'.op = "logout" => serverState' = serverState
        /\ \A t \in client'.atLogout :
               (now' < t.exp /\ findById(t.userId)' # {})
               => /\ auth_server(t)' = t.userId
                  /\ (resp'.op = "GetPatients" /\ resp'.req.tok = t) => resp'.status = 200
    ]_vars

C17_Witness ==
    /\ resp.op = "GetPatients"
    /\ resp.req.tok \in client.atLogout
    /\ client.token = MissingHeader
    /\ resp.status = 200

LoggedOutClean ==
    client.user = NoUser /\ client.token = MissingHeader /\ client.cached = NoUser

activity == resp.op \in {"handleActivity", "login"}

Await(op, req, read, doc) == [op |-> op, req |-> req, read |-> read, doc |-> doc]

NoResponse(op, req) == Reply("await", "server", [op |-> op, req |-> req], 0, "", <<>>)

\* POST /api/users up to and including `await User.findOne({ email })`
PostUsers_server_findOne(tok, body) ==
    LET req == [tok |-> tok, body |-> body]
        caller == auth_server(tok)
    IN  /\ Cardinality(pending) < MaxPending
        /\ IF caller = NoUser
           THEN resp' = Unauthenticated("PostUsers", "server", req) /\ UNCHANGED pending
           ELSE IF ~adminAuth(caller)
           THEN resp' = Forbidden("PostUsers", "server", req) /\ UNCHANGED pending
           ELSE IF findOneByEmail(body.email) # {}
           THEN /\ resp' = Reply("PostUsers", "server", req, 400, "Cet email est deja utilise", <<>>)
                /\ UNCHANGED pending
           ELSE /\ resp' = NoResponse("PostUsers", req)
                /\ pending' = pending \cup {Await("PostUsers", req, <<>>, <<>>)}
        /\ UNCHANGED <<users, patients, appointments, records, uploads, issued, now, lastId, gone,
                       client>>

\* ... and from `await user.save()` on
PostUsers_server_save(p) ==
    LET body == p.req.body
        bad(r) == resp' = r /\ UNCHANGED <<users, lastId>>
    IN  /\ p \in pending /\ p.op = "PostUsers"
        /\ pending' = pending \ {p}
        /\ IF Falsy(body.email) \/ Falsy(body.password)
              \/ (~Falsy(body.role) /\ body.role \notin Roles)
              \/ duplicateKey(body.email, NoUser)
           THEN bad(Reply("PostUsers", "server", p.req, 400,
                          "Erreur lors de la creation de l'utilisateur", <<>>))
           ELSE SaveUser("PostUsers", "server", p.req,
                         NewUser(body, IF Falsy(body.role) THEN "medecin" ELSE body.role))
        /\ UNCHANGED <<patients, appointments, records, uploads, issued, now, gone, client>>

\* PUT /api/users/:id up to and including the email check
PutUsers_server_findById(tok, id, body) ==
    LET req == [tok |-> tok, id |-> id, body |-> body]
        caller == auth_server(tok)
    IN  /\ Cardinality(pending) < MaxPending
        /\ IF caller = NoUser
           THEN resp' = Unauthenticated("PutUsers", "server", req) /\ UNCHANGED pending
           ELSE IF ~adminAuth(caller)
           THEN resp' = Forbidden("PutUsers", "server", req) /\ UNCHANGED pending
           ELSE IF findById(id) = {}
           THEN resp' = UserNotFound("server", req) /\ UNCHANGED pending
           ELSE IF body.email # TheUser(id).email /\ emailExists(body.email, id) # {}
           THEN /\ resp' = Reply("PutUsers", "server", req, 400, "Cet email est deja utilise", <<>>)
                /\ UNCHANGED pending
           ELSE /\ resp' = NoResponse("PutUsers", req)
                /\ pending' = pending \cup {Await("PutUsers", req, TheUser(id), <<>>)}
        /\ UNCHANGED <<users, patients, appointments, records, uploads, issued, now, lastId, gone,
                       client>>

\* ... and from `await User.findByIdAndUpdate(id, updateData, ...)` on; when
\* the user is gone by now, updatedUser.toObject() throws
PutUsers_server_findByIdAndUpdate(p) ==
    LET id == p.req.id
        body == p.req.body
    IN  /\ p \in pending /\ p.op = "PutUsers"
        /\ pending' = pending \ {p}
        /\ IF findById(id) = {} \/ updateDataInvalid(body) \/ duplicateKey(body.email, id)
           THEN resp' = UserUpdateError("server", p.req) /\ UNCHANGED users
           ELSE LET old == TheUser(id)
                    new == updateData(old, body)
                IN  /\ users' = (users \ {old}) \cup {new}
                    /\ resp' = Reply("PutUsers", "server", p.req, 200, "", redact(new))
        /\ UNCHANGED <<patients, appointments, records, uploads, issued, now, lastId, gone,
                       client>>

\* PUT /api/users/profile up to the assignments to the document read
PutProfile_server_findById(tok, body) ==
    LET req == [tok |-> tok, body |-> body]
        caller == auth_server(tok)
        user == TheUser(caller)
        changing == ~Falsy(body.currentPassword) /\ ~Falsy(body.newPassword)
        new == [user EXCEPT
                  !.password = IF changing THEN Plain(body.newPassword) ELSE @,
                  !.nom = orElse(body.nom, @),
                  !.prenom = orElse(body.prenom, @),
                  !.email = orElse(body.email, @)]
    IN  /\ Cardinality(pending) < MaxPending
        /\ IF caller = NoUser
           THEN resp' = Unauthenticated("PutProfile", "server", req) /\ UNCHANGED pending
           ELSE IF changing /\ user.password # Plain(body.currentPassword)
           THEN /\ resp' = Reply("PutProfile", "server", req, 400,
                                 "Mot de passe actuel incorrect", <<>>)
                /\ UNCHANGED pending
           ELSE /\ resp' = NoResponse("PutProfile", req)
                /\ pending' = pending \cup {Await("PutProfile", req, user, new)}
        /\ UNCHANGED <<users, patients, appointments, records, uploads, issued, now, lastId, gone,
                       client>>

\* ... and from `await user.save()` on: save() writes the paths that were
\* modified on the document read, and throws when the document is gone
modifiedPaths(read, doc, stored) ==
    [stored EXCEPT
       !.password = IF doc.password # read.password THEN doc.password ELSE @,
       !.nom = IF doc.nom # read.nom THEN doc.nom ELSE @,
       !.prenom = IF doc.prenom # read.prenom THEN doc.prenom ELSE @,
       !.email = IF doc.email # read.email THEN doc.email ELSE @]

PutProfile_server_save(p) ==
    LET id == p.read.id
    IN  /\ p \in pending /\ p.op = "PutProfile"
        /\ pending' = pending \ {p}
        /\ IF \/ findById(id) = {}
              \/ (p.doc.email # p.read.email /\ duplicateKey(p.doc.email, id))
           THEN /\ resp' = Reply("PutProfile", "server", p.req, 400,
                                 "Erreur lors de la mise a jour du profil", <<>>)
                /\ UNCHANGED users
           ELSE /\ users' = IF p.doc = p.read THEN users
                            ELSE (users \ {TheUser(id)})
                                 \cup {modifiedPaths(p.read, p.doc, TheUser(id))}
                /\ resp' = Reply("PutProfile", "server", p.req, 200, "", redact(p.doc))
        /\ UNCHANGED <<patients, appointments, records, uploads, issued, now, lastId, gone,
                       client>>

\* DELETE /api/users/:id up to and including
\* `await User.countDocuments({ role: 'admin' })`
DeleteUser_server_countDocuments(tok, id) ==
    LET req == [tok |-> tok, id |-> id]
        caller == auth_server(tok)
    IN  /\ Cardinality(pending) < MaxPending
        /\ IF caller = NoUser
           THEN resp' = Unauthenticated("DeleteUser", "server", req) /\ UNCHANGED pending
           ELSE IF ~adminAuth(caller)
           THEN resp' = Forbidden("DeleteUser", "server", req) /\ UNCHANGED pending
           ELSE IF findById(id) = {}
           THEN /\ resp' = Reply("DeleteUser", "server", req, 404, "Utilisateur non trouve", <<>>)
                /\ UNCHANGED pending
           ELSE IF TheUser(id).role = "admin" /\ countAdmins <= 1
           THEN /\ resp' = Reply("DeleteUser", "server", req, 400,
                                 "Impossible de supprimer le dernier administrateur", <<>>)
                /\ UNCHANGED pending
           ELSE /\ resp' = NoResponse("DeleteUser", req)
                /\ pending' = pending \cup {Await("DeleteUser", req, TheUser(id), <<>>)}
        /\ UNCHANGED <<users, patients, appointments, records, uploads, issued, now, lastId, gone,
                       client>>

\* ... and from `await User.findByIdAndDelete(id)` on
DeleteUser_server_findByIdAndDelete(p) ==
    /\ p \in pending /\ p.op = "DeleteUser"
    /\ pending' = pending \ {p}
    /\ users' = users \ findById(p.req.id)
    /\ resp' = Reply("DeleteUser", "server", p.req, 200, "Utilisateur supprime avec succes", <<>>)
    /\ UNCHANGED <<patients, appointments, records, uploads, issued, now, lastId, gone, client>>

\* PUT /api/medical-records/:id of server.js up to and including
\* `await MedicalRecord.findOne(...)`: the files are stored, the record is read
PutRecords_server_findOne(tok, id, body, files) ==
    LET req == [tok |-> tok, id |-> id, body |-> body, files |-> files]
        caller == auth_server(tok)
        found == findOneRecord(id, caller)
    IN  /\ Cardinality(pending) < MaxPending
        /\ IF caller = NoUser
           THEN /\ resp' = Unauthenticated("PutRecords", "server", req)
                /\ UNCHANGED <<pending, lastId, uploads>>
           ELSE IF ~uploadPasses(files)
           THEN /\ resp' = UploadError("PutRecords", "server", req)
                /\ UNCHANGED <<pending, lastId, uploads>>
           ELSE /\ Upload(files)
                /\ lastId' = [lastId EXCEPT !.file = @ + Len(files)]
                /\ IF found = {}
                   THEN resp' = RecordNotFound("PutRecords", "server", req) /\ UNCHANGED pending
                   ELSE /\ resp' = NoResponse("PutRecords", req)
                        /\ pending' = pending \cup {Await("PutRecords", req,
                                                           CHOOSE r \in found : TRUE,
                                                           storedFiles(files))}
        /\ UNCHANGED <<users, patients, appointments, records, issued, now, gone, client>>

\* ... and from `await MedicalRecord.findByIdAndUpdate(id, {...})` on: the
\* attachments written are those of the record as it was read, then the new
\* ones; with the record gone by now the answer is 200 with null
PutRecords_server_findByIdAndUpdate(p) ==
    LET now_ == {r \in records : r.id = p.req.id}
    IN  /\ p \in pending /\ p.op = "PutRecords"
        /\ pending' = pending \ {p}
        /\ IF p.req.body.date.form = "invalid"
           THEN /\ resp' = Reply("PutRecords", "server", p.req, 500,
                                 "Erreur lors de la modification du dossier medical", <<>>)
                /\ UNCHANGED records
           ELSE IF now_ = {}
           THEN resp' = Reply("PutRecords", "server", p.req, 200, "", <<>>) /\ UNCHANGED records
           ELSE LET old == CHOOSE r \in now_ : TRUE
                    new == setRecord(old, p.req.body,
                                     mergeAttachments(p.read.attachments, p.doc))
                IN  /\ records' = (records \ {old}) \cup {new}
                    /\ resp' = Reply("PutRecords", "server", p.req, 200, "", recordToJSON(new))
        /\ UNCHANGED <<users, patients, appointments, uploads, issued, now, lastId, gone, client>>

\* -------------------------------------------------------------- SpecEmails
EmailUpdates ==
    [email : {"a@clinic", "b@clinic"}, nom : {"Roux"}, prenom : {Absent}, role : {"medecin"},
     password : {Absent}]

EmailProfiles ==
    [currentPassword : {Absent}, newPassword : {Absent}, nom : {Absent}, prenom : {Absent},
     email : {"a@clinic", "b@clinic"}]

NextEmails ==
    \/ \E c \in Accounts : Login_server(c[1], c[2])
    \/ \E t \in issued, b \in Staff : PostUsers_server_findOne(t, b)
    \/ \E p \in pending : PostUsers_server_save(p)
    \/ \E t \in issued, id \in UserIds, b \in EmailUpdates : PutUsers_server_findById(t, id, b)
    \/ \E p \in pending : PutUsers_server_findByIdAndUpdate(p)
    \/ \E t \in issued, b \in EmailProfiles : PutProfile_server_findById(t, b)
    \/ \E p \in pending : PutProfile_server_save(p)

SpecEmails == Init /\ [][NextEmails]_vars

uniqueEmails == \A u, v \in users : u.email = v.email => u.id = v.id

writesEmail(r) == r.op \in {"PostUsers", "PutUsers", "PutProfile"}

targetOf(r) ==
    IF r.op = "PostUsers" THEN NoUser ELSE IF r.op = "PutUsers" THEN r.req.id ELSE r.req.tok.userId

held(email, id) == \E u \in users : u.email = email /\ u.id # id

\* the request of answer r creates a user, or updates an existing one, with
\* an email that a different user holds
duplicates(r) ==
    /\ writesEmail(r)
    /\ r.op # "PostUsers" => findById(targetOf(r)) # {}
    /\ held(r.req.body.email, targetOf(r))

nothingModified ==
    /\ resp'.op = "PutProfile"
    /\ \E p \in pending \ pending' : p.req = resp'.req /\ p.doc = p.read

StatusUpdates ==
    {[NoAppointmentChange EXCEPT !.status = st] : st \in StatusEnum}
        \cup {[NoAppointmentChange EXCEPT !.motif = "suivi"]}

NextStatus ==
    \/ Login_server("admin@example.com", "1234")
    \/ \E t \in issued : PostPatients_server(t, OnePatient)
    \/ \E t \in issued : PostAppointments_part005(t, OneAppointment)
    \/ \E t \in issued, id \in AppointmentIds, b \in StatusUpdates :
           PutAppointments_part005(t, id, b)
    \/ \E t \in issued, id \in AppointmentIds : DeleteAppointments_part005(t, id)
    \/ \E t \in issued : GetAppointments_part005(t)

SpecStatus == Init /\ [][NextStatus]_vars

terminal(st) == st \in {"termine", "annule"}

\* C20: once the status of an appointment is completed or cancelled, no
\* operation changes it again.
C20_TerminalStatusIsFinal ==
    [][\A a \in appointments : \A b \in appointments' :
           (terminal(a.status) /\ b.id = a.id) => b.status = a.status]_vars

\* ------------------------------------------------------------- SpecCascade
NextCascade ==
    \/ Login_server("admin@example.com", "1234")
    \/ \E t \in issued : PostPatients_server(t, OnePatient)
    \/ \E t \in issued, p \in PatientIds :
           PostAppointments_part005(t, [OneAppointment EXCEPT !.patient = p])
    \/ \E t \in issued, p \in PatientIds, f \in Uploads : PostRecords_server(t, p, OneRecord, f)
    \/ \E t \in issued, id \in PatientIds : DeletePatients_server(t, id)
    \/ \E t \in issued, id \in PatientIds : DeletePatients_router(t, id)

SpecCascade == Init /\ [][NextCascade]_vars

\* C21: deleting a patient removes that patient and nothing else: the
\* appointments, the medical records and the attachment files that refer to
\* the patient stay as they were.
C21_DeletePatientDoesNotCascade ==
    [][resp'.op = "DeletePatients"
       => /\ appointments' = appointments
          /\ records' = records
          /\ uploads' = uploads
          /\ patients' = IF resp'.status = 200
                         THEN {p \in patients : p.id # resp'.req.id} ELSE patients]_vars

C21_Witness ==
    /\ resp.op = "DeletePatients" /\ resp.status = 200
    /\ \A p \in patients : p.id # resp.req.id
    /\ \E a \in appointments : a.patient = resp.req.id
    /\ \E r \in records :
           /\ r.patientId = resp.req.id
           /\ r.attachments # <<>>
           /\ \A i \in 1..Len(r.attachments) : r.attachments[i].filename \in uploads

\* -------------------------------------------------------------- SpecAdmins
SecondAdmin ==
    [email |-> "b@clinic", password |-> "pw", role |-> "admin", nom |-> "Roux", prenom |-> Absent]

RoleUpdates ==
    [email : {"admin@example.com", "b@clinic"}, nom : {"Roux"}, prenom : {Absent},
     role : Roles, password : {Absent}]

NextAdmins ==
    \/ \E c \in {<<"admin@example.com", "1234">>, <<"b@clinic", "pw">>} : Login_server(c[1], c[2])
    \/ \E t \in issued : PostUsers_server(t, SecondAdmin)
    \/ \E t \in issued, id \in UserIds, b \in RoleUpdates : PutUsers_server(t, id, b)
    \/ \E t \in issued, id \in UserIds : DeleteUser_server_countDocuments(t, id)
    \/ \E p \in pending : DeleteUser_server_findByIdAndDelete(p)

SpecAdmins == Init /\ [][NextAdmins]_vars

\* C22: an admin exists in every reachable state, whatever admins create,
\* update (role changes included) and delete, also when two deletions of two
\* different admins interleave.
C22_AnAdminAlwaysExists == \E u \in users : u.role = "admin"

\* ------------------------------------------------------- SpecRecordUpdates
NextRecordUpdates ==
    \/ Login_server("admin@example.com", "1234")
    \/ \E t \in issued : PostPatients_server(t, OnePatient)
    \/ \E t \in issued, p \in PatientIds : PostRecords_server(t, p, OneRecord, <<>>)
    \/ \E t \in issued, id \in RecordIds, b \in RecordUpdates,
          f \in {<<>>, <<"scan.pdf">>, <<"rx.png">>} : PutRecords_server_findOne(t, id, b, f)
    \/ \E p \in pending : PutRecords_server_findByIdAndUpdate(p)

SpecRecordUpdates == Init /\ [][NextRecordUpdates]_vars

asSet(seq) == {seq[i] : i \in 1..Len(seq)}

\* C23: however update requests on one record interleave, the write of an
\* update removes no attachment from the record: those it had before the
\* updates and those added by an update that has completed stay on it.
C23_UpdatesKeepAttachments ==
    [][resp'.op = "PutRecords"
       => \A r \in records : \A q \in records' :
              q.id = r.id => asSet(r.attachments) \subseteq asSet(q.attachments)]_vars

\* ------------------------------------------------------------- SpecRouting
NextRouting ==
    \/ \E c \in Accounts : Login_server(c[1], c[2])
    \/ \E t \in issued : PostUsers_server(t, OneStaff)
    \/ \E t \in issued, b \in ProfileBodies : PutUsersProfile_server(t, b)
    \/ Tick

SpecRouting == Init /\ [][NextRouting]_vars

currentPasswordOf(r) ==
    \E u \in users : u.id = r.req.tok.userId /\ u.password = Plain(r.req.body.currentPassword)

\* C24: PUT /users/profile of an authenticated caller, admin or not, runs the
\* profile handler: with the correct current password it is not answered
\* Forbidden and not answered as an update by id with an invalid id.
C24_ProfileRouteReachesProfileHandler ==
    [][(resp'.op \in {"PutUsers", "PutProfile"} /\ TokenGood(resp'.req.tok))
       => /\ resp'.op = "PutProfile"
          /\ currentPasswordOf(resp') => (resp'.status # 403 /\ resp'.msg # "ID utilisateur invalide")
      ]_vars

\* ----------------------------------------------------- SpecAppointmentRefs
PatientRefs == {[NoAppointmentChange EXCEPT !.patient = p] : p \in PatientIds}

NextAppointmentRefs ==
    \/ Setup
    \/ \E t \in issued : PostPatients_server(t, OnePatient)
    \/ \E t \in issued, p \in PatientIds :
           PostAppointments_server(t, [OneAppointment EXCEPT !.patient = p])
    \/ \E t \in issued, id \in AppointmentIds, b \in PatientRefs :
           PutAppointments_part005(t, id, b)
    \/ \E t \in issued : GetAppointments_server(t)

SpecAppointmentRefs == Init /\ [][NextAppointmentRefs]_vars

\* C25: the patient an appointment refers to is owned by the owner of the
\* appointment, in every reachable state.
C25_AppointmentPatientSameOwner ==
    \A a \in appointments : \A p \in patients : a.patient = p.id => p.doctor = a.doctor

\* --------------------------------------------------------- SpecRecordOwner
RecordOwnerUpdates ==
    {[NoRecordChange EXCEPT !.doctor = 2], [NoRecordChange EXCEPT !.patientId = 2]}

PatientOwnerUpdates == {[NoPatientChange EXCEPT !.doctor = 2]}

NextRecordOwner ==
    \/ \E c \in Accounts : Login_server(c[1], c[2])
    \/ \E t \in issued : PostUsers_server(t, OneStaff)
    \/ \E t \in issued : PostPatients_server(t, OnePatient)
    \/ \E t \in issued, p \in PatientIds : PostRecords_server(t, p, OneRecord, <<>>)
    \/ \E t \in issued, p \in PatientIds : GetRecords_server(t, p)
    \/ \E t \in issued, id \in RecordIds, b \in RecordOwnerUpdates :
           PutRecords_server(t, id, b, <<>>)
    \/ \E t \in issued, id \in RecordIds, b \in RecordOwnerUpdates :
           PutRecords_router(t, id, b, <<>>)
    \/ \E t \in issued, id \in RecordIds : DeleteRecords_server(t, id, {})
    \/ \E t \in issued, id \in RecordIds : DeleteRecords_router(t, id)
    \/ \E t \in issued, id \in PatientIds, b \in PatientOwnerUpdates :
           PutPatients_server(t, id, b)

SpecRecordOwner == Init /\ [][NextRecordOwner]_vars

ownsPatient(caller, patientId) ==
    \A p \in patients : p.id = patientId => p.doctor = caller

\* C26: the owner of a medical record is the owner of the patient it refers
\* to while that patient exists, and a read, update or delete of a record
\* succeeds only for a caller who owns that patient.
C26_RecordOwnerIsPatientOwner ==
    /\ [](\A r \in records : ownsPatient(r.doctor, r.patientId))
    /\ [][(resp'.op \in {"PutRecords", "DeleteRecords"} /\ resp'.status = 200)
           => \A r \in records :
                  r.id = resp'.req.id => ownsPatient(resp'.req.tok.userId, r.patientId)]_vars
    /\ [][(resp'.op = "GetRecords" /\ resp'.status = 200)
           => ownsPatient(resp'.req.tok.userId, resp'.req.patientId)]_vars

\* ------------------------------------------------------------- SpecStorage
NextStorage ==
    \/ Login_server("admin@example.com", "1234")
    \/ \E t \in issued : PostPatients_server(t, OnePatient)
    \/ \E t \in issued, p \in PatientIds, f \in Uploads : PostRecords_server(t, p, OneRecord, f)
    \/ \E t \in issued, id \in RecordIds, b \in RecordUpdates, f \in Uploads :
           PutRecords_server(t, id, b, f)
    \/ \E t \in issued, id \in RecordIds : DeleteRecords_server(t, id, {})

SpecStorage == Init /\ [][NextStorage]_vars

holders(f) == {r \in records : \E i \in 1..Len(r.attachments) : r.attachments[i].filename = f}

\* C27: with no request in flight, every file in uploads/ is on the
\* attachment list of exactly one medical record.
C27_EveryFileHasOneRecord ==
    pending = {} => \A f \in uploads : Cardinality(holders(f)) = 1

\* ------------------------------------------------------------ SpecDownload
NextDownload ==
    \/ \E c \in Accounts : Login_server(c[1], c[2])
    \/ \E t \in issued : PostUsers_server(t, OneStaff)
    \/ \E t \in issued : PostPatients_server(t, OnePatient)
    \/ \E t \in issued, p \in PatientIds : PostRecords_server(t, p, OneRecord, <<"scan.pdf">>)
    \/ \E t \in issued, f \in FileNames : GetAttachment_server(t, f)

SpecDownload == Init /\ [][NextDownload]_vars

\* C28: the download operation serves a file on the record of one
\* practitioner to no other practitioner, whatever storage name is asked for.
C28_DownloadIsOwnerOnly ==
    [][(resp'.op = "GetAttachment" /\ resp'.status = 200)
       => \A r \in holders(resp'.req.filename) : r.doctor = resp'.req.tok.userId]_vars

\* ------------------------------------------------------------- SpecSession
NextSession ==
    \/ \E c \in Accounts \cup {<<"admin@example.com", "bad">>} : login(c[1], c[2])
    \/ \E via \in {"button", "timer"} : logout(via)
    \/ \E e \in ActivityEvents : handleActivity(e)
    \/ Elapse(IdleStep)
    \/ Tick
    \/ getUsers
    \/ \E t \in issued : PostUsers_server(t, OneStaff)

SpecSession == Init /\ [][NextSession]_vars

\* C29: localStorage holds a token exactly when it holds a cached user, and
\* isAuthenticated is true only when a token is stored.
C29_CachedCredentialsConsistent ==
    /\ client.token # MissingHeader <=> client.cached # NoUser
    /\ client.user # NoUser => client.token # MissingHeader

\* ----------------------------------------------------------- patient form
countryCodes ==
    << <<"+", "2", "1", "6">>, <<"+", "3", "3">>, <<"+", "1">>, <<"+", "4", "4">>,
       <<"+", "4", "9">>, <<"+", "3", "4">>, <<"+", "3", "9">>, <<"+", "2", "1", "2">>,
       <<"+", "2", "1", "3">>, <<"+", "2", "0">> >>

\* \d
isDigit(ch) == ch \in {"0", "1", "2", "3", "4", "5", "6", "7", "8", "9"}

\* the characters as one text
RECURSIVE text(_)
text(s) == IF s = <<>> THEN "" ELSE s[1] \o text(Tail(s))

\* value.replace(/\D/g, '')
RECURSIVE digitsOf(_)
digitsOf(s) ==
    IF s = <<>> THEN <<>>
    ELSE IF isDigit(s[1]) THEN <<s[1]>> \o digitsOf(Tail(s)) ELSE digitsOf(Tail(s))

\* the length of what a greedy \d+ takes at the head of s; the (.*) that
\* follows matches any rest, so the match never gives a digit back
RECURSIVE digitRun(_)
digitRun(s) == IF s # <<>> /\ isDigit(s[1]) THEN 1 + digitRun(Tail(s)) ELSE 0

\* String.prototype.trim
RECURSIVE trimStart(_)
trimStart(s) == IF s # <<>> /\ s[1] = " " THEN trimStart(Tail(s)) ELSE s

RECURSIVE trimEnd(_)
trimEnd(s) ==
    IF s # <<>> /\ s[Len(s)] = " " THEN trimEnd(SubSeq(s, 1, Len(s) - 1)) ELSE s

trim(s) == trimEnd(trimStart(s))

\* extractPhoneDetails of src/components/Patients.tsx: /^(\+\d+)(.*)$/
extractPhoneDetails(fullPhone) ==
    LET n == Len(fullPhone)
        k == IF n >= 1 /\ fullPhone[1] = "+" THEN digitRun(Tail(fullPhone)) ELSE 0
    IN  IF k >= 1
        THEN [countryCode |-> SubSeq(fullPhone, 1, 1 + k),
              phoneNumber |-> trim(SubSeq(fullPhone, 2 + k, n))]
        ELSE [countryCode |-> <<"+", "2", "1", "6">>, phoneNumber |-> digitsOf(fullPhone)]

\* handleEdit of server/src/components/Patients.tsx destructures the match
\* of /^(\+\d+)?(.*)$/ from its element 0: countryCode is the whole match,
\* phoneNumber is group 1, '' when the group took nothing
matchDetails(fullPhone) ==
    LET n == Len(fullPhone)
        k == IF n >= 1 /\ fullPhone[1] = "+" THEN digitRun(Tail(fullPhone)) ELSE 0
    IN  [countryCode |-> IF fullPhone = <<>> THEN <<"+", "2", "1", "6">> ELSE fullPhone,
         phoneNumber |-> IF k >= 1 THEN SubSeq(fullPhone, 1, 1 + k) ELSE <<>>]

\* validateForm: /^\d{7}$/ on the telephone; the other fields of the forms
\* here (FormPatient) pass their tests
validateForm(f) == Len(f.telephone) = 7 /\ \A i \in 1..7 : isDigit(f.telephone[i])

FormPatient == [OnePatient EXCEPT !.email = "ana@mail.tn"]

\* what a user types into the telephone input
Typed ==
    { <<"1", "2", "3", "4", "5", "6", "7">>, <<"1", "2", " ", "3", "4">>,
      <<"1", "2", "3", "-", "4", "5", "6", "7", "8">> }

\* handleInputChange: the telephone keeps its first 7 digits
sanitizedValue(value) ==
    LET d == digitsOf(value) IN SubSeq(d, 1, IF Len(d) < 7 THEN Len(d) ELSE 7)

handleInputChange(name, value) ==
    /\ client.user # NoUser
    /\ client' = IF name = "telephone"
                 THEN [client EXCEPT !.formData.telephone = sanitizedValue(value)]
                 ELSE [client EXCEPT !.formData.countryCode = value]
    /\ resp' = Reply("handleInputChange", "client", [name |-> name, value |-> value], 0, "", <<>>)
    /\ UNCHANGED <<users, patients, appointments, records, uploads, issued, now, lastId, gone,
                   pending>>

\* the texts the form can have stored: a country code of the list followed
\* by at most k numbers of 7 digits
RECURSIVE storable(_)
storable(k) ==
    IF k = 0 THEN {countryCodes[i] : i \in DOMAIN countryCodes}
    ELSE LET shorter == storable(k - 1)
         IN  shorter \cup {s \o sanitizedValue(t) : s \in shorter,
                                                    t \in {v \in Typed : Len(digitsOf(v)) >= 7}}

\* the characters of a stored telephone
chars(stored) ==
    CHOOSE s \in storable(MaxPhone \div 7) : Len(s) = Len(stored) /\ text(s) = stored

\* handleEdit: the patient of the list goes to the form; via names the
\* component, "src" (extractPhoneDetails) or "server"
handleEdit(via, id) ==
    /\ client.user # NoUser
    /\ \E p \in findPatients(client.user) :
          /\ p.id = id
          /\ LET d == IF via = "src" THEN extractPhoneDetails(chars(p.telephone))
                      ELSE matchDetails(chars(p.telephone))
             IN  client' = [client EXCEPT !.formData = [telephone |-> d.phoneNumber,
                                                        countryCode |-> d.countryCode,
                                                        editingPatient |-> p.id]]
          /\ resp' = Reply("handleEdit", via, [id |-> id], 0, "", p.telephone)
    /\ UNCHANGED <<users, patients, appointments, records, uploads, issued, now, lastId, gone,
                   pending>>

\* handleSubmit: validateForm, then POST /patients, or PUT /patients/:id when
\* a patient is being edited; on 200 or 201 the list is fetched again and the
\* form is reset
handleSubmit ==
    LET f == client.formData
        caller == auth_server(client.token)
        patientData == [FormPatient EXCEPT !.telephone = text(f.countryCode \o f.telephone)]
        req == [tok |-> client.token, id |-> f.editingPatient, body |-> patientData]
        body == stamp(patientData, caller)
        doc == newPatient(body, caller)
        found == findOnePatient(f.editingPatient, caller)
        done(c) == [c EXCEPT !.formData = resetForm]
    IN  /\ client.user # NoUser
        /\ Len(f.countryCode \o f.telephone) <= MaxPhone
        /\ IF ~validateForm(f)
           THEN /\ resp' = Reply("handleSubmit", "client", req, 0,
                                 "Le numero de telephone doit contenir exactement 7 chiffres",
                                 <<>>)
                /\ UNCHANGED <<patients, lastId, client>>
           ELSE IF caller = NoUser
           THEN /\ resp' = Unauthenticated("handleSubmit", "client", req)
                /\ client' = interceptor(client, 401)
                /\ UNCHANGED <<patients, lastId>>
           ELSE IF f.editingPatient = NoPatient
           THEN IF ~patientValid(body)
                THEN /\ resp' = Reply("handleSubmit", "client", req, 400,
                                      "Erreur lors de la creation du patient", <<>>)
                     /\ UNCHANGED <<patients, lastId, client>>
                ELSE /\ doc.id <= MaxPatients
                     /\ patients' = patients \cup {doc}
                     /\ lastId' = [lastId EXCEPT !.patient = doc.id]
                     /\ resp' = Reply("handleSubmit", "client", req, 201, "", patientToJSON(doc))
                     /\ client' = done(client)
           ELSE IF found = {}
           THEN /\ resp' = [PatientNotFound("client", req) EXCEPT !.op = "handleSubmit"]
                /\ UNCHANGED <<patients, lastId, client>>
           ELSE IF setCastError(patientData) \/ setInvalid(patientData)
           THEN /\ resp' = [PatientUpdateError("client", req) EXCEPT !.op = "handleSubmit"]
                /\ UNCHANGED <<patients, lastId, client>>
           ELSE LET old == CHOOSE p \in found : TRUE
                    new == setPatient(old, patientData)
                IN  /\ patients' = (patients \ {old}) \cup {new}
                    /\ resp' = Reply("handleSubmit", "client", req, 200, "", patientToJSON(new))
                    /\ client' = done(client)
                    /\ UNCHANGED lastId
        /\ UNCHANGED <<users, appointments, records, uploads, issued, now, gone, pending>>

\* --------------------------------------------------------------- SpecPhone
NextPhone ==
    \/ login("admin@example.com", "1234")
    \/ \E t \in Typed : handleInputChange("telephone", t)
    \/ \E i \in DOMAIN countryCodes : handleInputChange("countryCode", countryCodes[i])
    \/ handleSubmit
    \/ \E via \in {"src", "server"}, id \in 1..MaxPatients : handleEdit(via, id)

SpecPhone == Init /\ [][NextPhone]_vars

inList(code) == \E i \in DOMAIN countryCodes : countryCodes[i] = code

\* C30: a saved patient stores countryCode followed by the 7-digit number,
\* and opening a stored patient for editing puts the same countryCode and
\* the same 7-digit number into the form, which then passes validation.
C30_PhoneRoundTrip ==
    [][
        /\ (resp'.op = "handleSubmit" /\ resp'.status \in {200, 201})
            => resp'.out.telephone
                 = text(client.formData.countryCode \o client.formData.telephone)
        /\ (resp'.op = "handleEdit")
            => /\ inList(client'.formData.countryCode)
               /\ validateForm(client'.formData)
               /\ text(client'.formData.countryCode \o client'.formData.telephone) = resp'.out
    ]_vars

====
